---- MODULE Spec2Model ----
(***************************************************************************)
(* Model of the cloud-socials OAuth token lifecycle and LinkedIn publish   *)
(* orchestration.                                                          *)
(*                                                                         *)
(* The service is a single event loop: every request handler runs until    *)
(* its next await of a provider call, so a handler is a sequence of steps  *)
(* (one per provider call, together with the store reads and writes that   *)
(* follow its answer) and the steps of concurrent requests interleave.     *)
(* The key-value store is Deno.Kv taken at its interface: get/set/delete   *)
(* with a per-key time to live, an entry being absent once its time to     *)
(* live has elapsed.  Time is in milliseconds.                             *)
(*                                                                         *)
(* src/src/controllers/LinkedInController.ts holds two revisions of the    *)
(* controller: the first (lines 1-230) works on the LinkedinClient of      *)
(* src/unnamed/part_002, the second (lines 232-512) on the client of the   *)
(* linkedin library.  The variable rev says which one the router of        *)
(* src/src/networks/linkedin.ts drives.                                    *)
(*                                                                         *)
(* The share route POST /linkedin/ is that of the first revision: the      *)
(* upload of the media, the enrichment of an article from its page, the    *)
(* payload of LinkedinPost, the publish POST and the comments.             *)
(*                                                                         *)
(* The TwitterClient of src/src/clients/Twitter.ts shares the store and    *)
(* has its own keys in it; of its routes the model has the login url, the  *)
(* token check with its refresh, and the thread.                           *)
(***************************************************************************)
EXTENDS Integers, Sequences, FiniteSets, TLC

VARIABLES
    now,      \* the clock, in ms
    kv,       \* Deno.Kv: key -> [val, exp]
    rev,      \* revision of LinkedInController the router drives
    client,   \* rev 2: the #client field (AuthenticatedLinkedinClient) or NoGrant
    req,      \* the requests in flight: process -> its handler's frame
    handed    \* history: nonce -> time GET /linkedin/oauth/login last handed it out
    ,stored   \* history: nonce -> time the controller last wrote it to the store
    ,authenticatedClient  \* TwitterClient.authenticatedClient: the access token
              \* the client object was made with, or null

vars == <<now, kv, rev, client, req, handed, stored, authenticatedClient>>

(***************************************************************************)
(* Bounds of the model                                                     *)
(***************************************************************************)
TickMs == 30000
MaxTime == 120000
MaxRefreshes == 2
\* comments of one share request
MaxComments == 2
\* chunks of one video upload
MaxChunks == 2

\* the request the specifications of one request at a time follow, and the
\* requests that can be in flight together
Procs == {"p1"}
Requests == {"p1", "p2"}
Nonces == {"n1", "n2"}
\* values a caller may present as `state`: the nonces and one never issued
StateParams == Nonces \cup {"zz"}
AccessTokens == {"atA", "atB"}
RefreshTokens == {"rt1"}
\* expires_in / refresh_token_expires_in the provider may answer, in seconds
ExpiresInSecs == {0, 90}
RefreshExpiresInSecs == {150}

\* null / undefined
None == "none"
\* an absent number: no time to live, no time recorded
Never == -1

(***************************************************************************)
(* Configuration                                                           *)
(***************************************************************************)
\* config.linkedin.allowedUserId
allowedUserId == "fXAGSZErfj"
\* the account a provider-issued access token belongs to (GET /v2/me)
ProfileId(t) == IF t = "atA" THEN allowedUserId ELSE "someoneElse"

(***************************************************************************)
(* Deno.Kv                                                                 *)
(***************************************************************************)
KeyNonces(n) == <<"linkedin", "nonces", n>>
KeyAccessToken == <<"linkedin", "accessToken">>
KeyRefreshToken == <<"linkedin", "refreshToken">>
\* the kvKeyBuilder of TwitterClient
KeyTwitterNonces(n) == <<"twitter", "nonces", n>>
KeyCodeVerifier(n) == <<"twitter", "codeVerifier", n>>
KeyTwitterAccessToken == <<"twitter", "accessToken">>
KeyTwitterRefreshToken == <<"twitter", "refreshToken">>
KvKeys ==
    {KeyAccessToken, KeyRefreshToken} \cup {KeyNonces(n) : n \in StateParams}
        \cup {KeyTwitterAccessToken, KeyTwitterRefreshToken}
        \cup {KeyTwitterNonces(n) : n \in Nonces} \cup {KeyCodeVerifier(n) : n \in Nonces}

NoEntry == [val |-> None, exp |-> Never]

\* db.get(key).value at time t: null when the key is absent or has expired
KvGet(store, t, k) ==
    IF store[k].val # None /\ (store[k].exp = Never \/ t < store[k].exp)
    THEN store[k].val
    ELSE None

\* db.set(key, value, { expireIn }) at time t; expireIn undefined (Never) = no expiry
KvSet(store, t, k, v, expireIn) ==
    [store EXCEPT ![k] = [val |-> v,
                          exp |-> IF expireIn = Never THEN Never ELSE t + expireIn]]

\* db.delete(key)
KvDelete(store, k) == [store EXCEPT ![k] = NoEntry]

\* expired entries are gone from the store
KvSweep(store, t) ==
    [k \in KvKeys |-> IF KvGet(store, t, k) = None THEN NoEntry ELSE store[k]]


(***************************************************************************)
(* The provider (LinkedIn OAuth and REST API)                              *)
(***************************************************************************)
\* bodies of a 2xx answer of POST /oauth/v2/accessToken, as sent (seconds)
TokenBodies ==
    { [access_token |-> a, expires_in |-> e, refresh_token |-> r,
       refresh_token_expires_in |-> IF r = None THEN Never ELSE x] :
        a \in AccessTokens, e \in ExpiresInSecs,
        r \in RefreshTokens \cup {None}, x \in RefreshExpiresInSecs }

\* what a token request can come to: a 2xx answer with a token body, a non-2xx
\* answer (its body is an error object), a 2xx answer whose body does not match
\* accessTokenResponseSchema, or a fetch that rejects
TokenAnswers ==
    { [kind |-> "ok", body |-> b] : b \in TokenBodies } \cup
    { [kind |-> k, body |-> None] : k \in {"http_error", "bad_body", "network_error"} }

\* answers to the upload, publish and comment calls, by status; the body of
\* an answer is JSON, as the provider's API answers errors too
UploadAnswers == {"ok", "ok_novalue", "http_error"}
PutAnswers == {"ok", "http_error"}
\* the etag headers a chunk PUT can be answered with
Etags == {"e1", "e2"}
\* answers to a chunk PUT: 2xx with an etag, or non-2xx without one
ChunkAnswers ==
    { [ok |-> TRUE, etag |-> e] : e \in Etags } \cup { [ok |-> FALSE, etag |-> None] }
\* the provider calls of a share request
CallKinds == {"initializeUpload", "put", "finalizeUpload", "post"}
PublishAnswers == {"ok", "ok_noid", "http_error"}
CommentAnswers == {"ok", "not_found", "http_error"}
\* LinkedinMediaTypes, and none for a body without media
MediaTypes == {"none", "article", "image", "document", "video"}
\* retries = 3 of finalizeVideoUpload, retries = 10 of postComment
FinalizeRetries == 3
CommentRetries == 10

\* what GET /v2/me can come to
ProfileAnswers == {"ok", "ok_noid", "unauthorized", "http_error", "network_error"}

\* accessTokenResponseSchema.parse: seconds become milliseconds
accessTokenResponseSchema(b) ==
    [access_token |-> b.access_token,
     expires_in |-> b.expires_in * 1000,
     refresh_token |-> b.refresh_token,
     refresh_token_expires_in |->
        IF b.refresh_token_expires_in = Never \/ b.refresh_token_expires_in = 0
        THEN b.refresh_token_expires_in
        ELSE b.refresh_token_expires_in * 1000]

NoGrant == [access_token |-> None, expires_in |-> 0, refresh_token |-> None,
            refresh_token_expires_in |-> Never]

(***************************************************************************)
(* LinkedInController: the store operations                                *)
(***************************************************************************)
\* the nonce's time to live in loginUrl
NonceExpireIn == 60000

\* loginUrl: db.set(nonces(nonce), nonce, { expireIn: 60000 })
loginUrlSet(store, t, nonce) == KvSet(store, t, KeyNonces(nonce), nonce, NonceExpireIn)

\* a setTokens that takes a response without refresh token for the end of the
\* stored one
setTokensDropsRefresh(store, t, data) ==
    LET s1 == KvSet(store, t, KeyAccessToken, data.access_token, data.expires_in)
    IN  IF data.refresh_token # None
        THEN KvSet(s1, t, KeyRefreshToken, data.refresh_token, data.refresh_token_expires_in)
        ELSE KvDelete(s1, KeyRefreshToken)

\* setTokens(data)
setTokens(store, t, data) ==
    LET s1 == KvSet(store, t, KeyAccessToken, data.access_token, data.expires_in)
    IN  IF data.refresh_token # None
        THEN KvSet(s1, t, KeyRefreshToken, data.refresh_token, data.refresh_token_expires_in)
        ELSE s1

\* clearTokens()
clearTokens(store) == KvDelete(KvDelete(store, KeyAccessToken), KeyRefreshToken)

\* a lookup that accepts a state as soon as any nonce is in the store
validateNonceAnyKey(store, t, state) ==
    \E n \in StateParams : KvGet(store, t, KeyNonces(n)) # None

\* validateNonce(state) at time t
validateNonce(store, t, state) ==
    LET nonce == KvGet(store, t, KeyNonces(state))
    IN  nonce # None /\ nonce = state

(***************************************************************************)
(* Errors and the status the error middleware answers with                 *)
(***************************************************************************)
StatusOf(err) ==
    CASE err = "ExpiredTokenError" -> 511
      [] err = "WrongTokenError" -> 423
      [] err = "FailedToShareError" -> 424
      [] err = "ZodError" -> 422
      [] err = "BadRequest" -> 400
      [] err = "UnprocessableEntity" -> 422
      [] err = "MaxTextSizeError" -> 422
      [] OTHER -> 500

(***************************************************************************)
(* The body of POST /linkedin/                                             *)
(***************************************************************************)
\* an absent object: post.media before addArticle / addMedia, the spread of
\* {}, a response without body
Nothing == <<>>

\* the text of the body
Texts == {"hello"}
\* media.source
Source == "https://example.com/a"

\* LinkedinMediaArticleInputSchema: thumbnail, title and description are
\* optional
Articles ==
    { [type |-> "article", source |-> Source, title |-> t, thumbnail |-> th,
       description |-> d] :
        t \in {None, "my title"}, th \in {None, "https://example.com/my.png"},
        d \in {None, "my description"} }

\* LinkedinMediaAssetInputSchema: an image, a document or a video
AssetInput(type) == [type |-> type, source |-> Source, title |-> "asset title"]

\* an article that comes with everything enrichArticle could add
CompleteArticle ==
    [type |-> "article", source |-> Source, title |-> "my title",
     thumbnail |-> "https://example.com/my.png", description |-> "my description"]

\* the media of the bodies whose article needs no enrichment
CompleteInputs ==
    {Nothing, CompleteArticle} \cup {AssetInput(t) : t \in {"image", "document", "video"}}

\* the media of every body
MediaInputs == CompleteInputs \cup Articles

\* media.type, "none" for a body without media
TypeOf(media) == IF media = Nothing THEN "none" ELSE media.type

(***************************************************************************)
(* SOCIAL_CARD_META_TAGS and the page fetchDOMFromURL parses               *)
(***************************************************************************)
\* JavaScript truthiness of a string, null or undefined
Truthy(v) == v # None /\ v # ""

\* a ?? b
Coalesce(a, b) == IF a # None THEN a ELSE b

\* the array literal of SOCIAL_CARD_META_TAGS; the selectors are
\* meta[property="og:.."], meta[name="twitter:.."] and title
MetaTagsAsWritten ==
    << [selector |-> "og:title", name |-> "title", priority |-> 2],
       [selector |-> "og:description", name |-> "description", priority |-> 2],
       [selector |-> "og:image", name |-> "thumbnail", priority |-> 2],
       [selector |-> "twitter:title", name |-> "title", priority |-> 1],
       [selector |-> "twitter:description", name |-> "description", priority |-> 1],
       [selector |-> "twitter:image", name |-> "thumbnail", priority |-> 1],
       [selector |-> "title", name |-> "title", priority |-> 3] >>

\* .sort((a, b) => a.priority - b.priority): ascending and stable
RECURSIVE InsertByPriority(_, _)
InsertByPriority(sorted, m) ==
    IF sorted = <<>> THEN <<m>>
    ELSE IF Head(sorted).priority <= m.priority
    THEN <<Head(sorted)>> \o InsertByPriority(Tail(sorted), m)
    ELSE <<m>> \o sorted

RECURSIVE SortByPriority(_)
SortByPriority(tags) ==
    IF tags = <<>> THEN <<>>
    ELSE InsertByPriority(SortByPriority(SubSeq(tags, 1, Len(tags) - 1)), tags[Len(tags)])

SOCIAL_CARD_META_TAGS == SortByPriority(MetaTagsAsWritten)

Selectors == {MetaTagsAsWritten[i].selector : i \in DOMAIN MetaTagsAsWritten}

\* what doc.querySelector(selector) finds in a page: no element, an element
\* without content attribute (value(element) is null), one whose content is
\* empty, one with content.  The pages drawn have every combination for the
\* first selector of title and of thumbnail and fewer for the others.
ElementStates(selector) ==
    CASE selector = "twitter:image" -> {"absent", "nocontent", "empty", "content"}
      [] selector \in {"og:image", "twitter:title"} -> {"absent", "empty", "content"}
      [] selector = "twitter:description" -> {"absent"}
      [] OTHER -> {"absent", "content"}

Pages ==
    { page \in [Selectors -> {"absent", "nocontent", "empty", "content"}] :
        \A s \in Selectors : page[s] \in ElementStates(s) }

\* the page of a request that fetched none
NoPage == [s \in Selectors |-> "absent"]

\* the content a page gives an element that has some
ContentOf(selector) ==
    CASE selector = "og:title" -> "Open Graph title"
      [] selector = "twitter:title" -> "Twitter title"
      [] selector = "title" -> "Page title"
      [] selector = "og:image" -> "https://example.com/og.png"
      [] selector = "twitter:image" -> "https://example.com/twitter.png"
      [] selector = "og:description" -> "Open Graph description"
      [] OTHER -> "Twitter description"

\* value(element): el.getAttribute('content') / el.textContent
value(page, selector) ==
    CASE page[selector] = "content" -> ContentOf(selector)
      [] page[selector] = "empty" -> ""
      [] OTHER -> None

\* SOCIAL_CARD_META_TAGS.filter(({ name }) => name === property)
metatags(property) == SelectSeq(SOCIAL_CARD_META_TAGS, LAMBDA m : m.name = property)

\* the metatags whose selector finds an element, in the order they are tried
Found(page, property) ==
    SelectSeq(metatags(property), LAMBDA m : page[m.selector] # "absent")

\* one turn of enrichArticle's loop over the properties: for a missing
\* property the selectors are tried in turn and the loop breaks at the first
\* that finds an element; validatedProperty = value(element) ?? article[property]
validatedProperty(article, property, page) ==
    LET found == Found(page, property)
    IN  IF Truthy(article[property]) \/ found = <<>> THEN None
        ELSE Coalesce(value(page, Head(found).selector), article[property])

\* what fetchDOMFromURL can come to: a document, a non-2xx answer, the 3000 ms
\* timer winning the race, a body the parser makes no document of, a fetch
\* that rejects
DomAnswers == {"ok", "http_error", "timeout", "no_doc", "network_error"}

(***************************************************************************)
(* LinkedinPost                                                            *)
(***************************************************************************)
\* `urn:li:person:${allowedUserId}`
authorizedUserURN == <<"urn:li:person:", allowedUserId>>

\* addArticle(data): this.media = { type: ARTICLE, ...data }
addArticle(data) == data @@ [type |-> "article"]

\* addMedia(type, title, id)
addMedia(type, title, id) == [type |-> type, title |-> title, id |-> id]

\* a #parseMedia that writes the optional properties of an article always
parseMediaAllKeys(media) ==
    IF media = Nothing THEN Nothing
    ELSE IF media.type = "article"
    THEN [content |->
            [article |->
                [source |-> media.source, title |-> media.title,
                 description |-> media.description, thumbnail |-> media.thumbnail]]]
    ELSE [content |-> [media |-> [id |-> media.id, title |-> media.title]]]

\* #parseMedia()
parseMedia(media) ==
    IF media = Nothing THEN Nothing
    ELSE IF media.type = "article"
    THEN [content |->
            [article |->
                [source |-> media.source, title |-> media.title]
                @@ (IF Truthy(media.description)
                    THEN [description |-> media.description] ELSE Nothing)
                @@ (IF Truthy(media.thumbnail)
                    THEN [thumbnail |-> media.thumbnail] ELSE Nothing)]]
    ELSE [content |-> [media |-> [id |-> media.id, title |-> media.title]]]

\* the payload getter
payload(text, author, media) ==
    [author |-> author,
     visibility |-> "PUBLIC",
     distribution |-> [feedDistribution |-> "MAIN_FEED"],
     commentary |-> text,
     lifecycleState |-> "PUBLISHED",
     isReshareDisabledByAuthor |-> FALSE] @@ parseMedia(media)

\* what a 2xx answer to initializeUpload carries in value: the upload url and
\* the urn of the asset (value.image ?? value.document, value.video)
UploadUrl == "https://www.linkedin.com/dms-uploads/1"
UrnOf(type) ==
    CASE type = "image" -> "urn:li:image:1"
      [] type = "document" -> "urn:li:document:1"
      [] OTHER -> "urn:li:video:1"
NoUpload == [uploadUrl |-> None, urn |-> None]

\* fetch takes the url of an http(s) resource; given a urn it rejects with a
\* TypeError
IsHttpUrl(u) == u \notin {UrnOf(t) : t \in {"image", "document", "video"}}

\* the x-restli-id header of a 2xx answer to the publish POST
RestliId == "urn:li:share:1"
\* `https://www.linkedin.com/feed/update/${postUrn}`
postUrlOf(postUrn) == <<"https://www.linkedin.com/feed/update/", postUrn>>

(***************************************************************************)
(* Request frames                                                          *)
(***************************************************************************)
\* one postComment of a share request
NoComment ==
    [pc |-> "none",
     retries |-> 0,         \* postComment's retries
     waits |-> <<>>,        \* history: the delays awaited so far, ms
     posts |-> 0,           \* history: POSTs sent for the comment
     last |-> None]         \* history: the last answer

\* one chunk of uploadVideo's chunk plan
NoChunk == [pc |-> "none", ok |-> FALSE, etag |-> None]

Idle ==
    [route |-> "idle", pc |-> "idle",
     state |-> None,        \* the state query parameter / the nonce of a login url
     nonceOk |-> FALSE,     \* history: state matched a stored nonce on arrival
     data |-> NoGrant,      \* the token response of the exchange
     t0 |-> Never,          \* history: when the exchange was answered
     ret |-> None,          \* where getAccessToken returns to
     after |-> None,        \* where validateAccessToken returns to
     tok |-> None,          \* the handler's accessToken
     rtok |-> None,         \* the refresh token getAccessToken read
     exchanges |-> 0,       \* history: token-exchange requests sent
     refreshes |-> 0,       \* history: refresh requests of this getAccessToken call
     refreshAns |-> None,   \* history: kind of the last refresh answer
     persisted |-> None,    \* history: access token this call's refresh persisted
     profileAns |-> None,   \* history: kind of the last profile answer
     wrote |-> FALSE,       \* history: the request wrote a token to the store
     cleared |-> FALSE,     \* history: the request ran clearTokens
     media |-> "none",      \* the media type of the share request
     bodyOk |-> FALSE,      \* history: validateBody accepted the body
     validated |-> None,    \* history: the token validateAccessToken accepted
     text |-> None,         \* the text of the body
     input |-> Nothing,     \* the media of the body
     article |-> Nothing,   \* enrichArticle's article
     fetches |-> 0,         \* history: fetches of the article's source page
     domAns |-> None,       \* history: what fetchDOMFromURL came to
     page |-> NoPage,       \* history: the page fetched
     scraped |-> None,      \* the validatedProperty enrichArticle uploads
     upload |-> NoUpload,   \* the uploadUrl and urn initializeUpload returned
     putTo |-> None,        \* history: the url the asset PUT was given
     post |-> Nothing,      \* LinkedinPost.media
     payload |-> Nothing,   \* history: the payload of the publish POST
     body |-> Nothing,      \* the body of a 201 response
     headers |-> Nothing,   \* the headers the route set
     tokExp |-> Never,      \* history: when the accessToken read expires
     refreshed |-> FALSE,   \* history: the request sent a refresh request
     stale |-> FALSE,       \* history: a call was sent with an expired accessToken
     sent |-> [k \in CallKinds |-> 0],  \* history: calls sent, by kind
     initAns |-> None,      \* history: the answer to initializeUpload
     putAns |-> None,       \* history: the answer to the asset PUT
     finalizeAns |-> None,  \* history: the last answer to finalizeUpload
     publishAns |-> None,   \* history: the answer to the publish POST
     nchunks |-> 0,         \* length of the uploadInstructions (urlArray)
     issued |-> 0,          \* chunk PUTs pushed to promises so far
     chunks |-> [i \in 1..MaxChunks |-> NoChunk],
     arrived |-> <<>>,      \* history: chunks in the order their PUTs answered
     ETags |-> <<>>,        \* the ETags handed to finalizeVideoUpload
     retries |-> 0,         \* finalizeVideoUpload's retries
     waits |-> <<>>,        \* history: the delays before the finalize retries, ms
     ncomments |-> 0,       \* length of the comments of the body
     firsts |-> <<>>,       \* history: comments in the order of their first POST
     comments |-> [i \in 1..MaxComments |-> NoComment],
     verifier |-> None,     \* the codeVerifier of the authorize link
     link |-> Nothing,      \* the query of the authorize url
     urlOnly |-> FALSE,     \* the request has the urlOnly parameter
     writes |-> 0,          \* history: db.set calls of the request completed
     tweets |-> <<>>,       \* the tweets of the thread
     attachments |-> <<>>,  \* the media of the thread
     ignore |-> FALSE,      \* ignoreCharacterLimit
     k |-> 0,               \* the place in tweets of the tweet being created
     inReplyTo |-> None,    \* createTweet's inReplyTo
     tweeted |-> <<>>,      \* history: the tweet requests sent
     ids |-> <<>>,          \* history: the ids of the tweets created
     granted |-> None,      \* history: the refresh token of the last refresh answer
     status |-> 0, err |-> None]

\* the request sends a provider call carrying its accessToken at time t
Sends(f, t, kind) ==
    [f EXCEPT !.sent[kind] = @ + 1,
              !.stale = @ \/ (f.tokExp # Never /\ t >= f.tokExp)]

Free(p) ==
    /\ req[p].pc \in {"idle", "done"}
    /\ \A i \in 1..MaxComments : req[p].comments[i].pc \in {"none", "ok", "failed"}

\* the handler of p throws err: inside the try of the second revision's
\* exchangeAccessToken every error is rethrown as a WrongTokenError
Thrown(f, err) ==
    LET e == IF rev = 2 /\ f.route = "callback" /\ f.pc # "idle"
             THEN "WrongTokenError" ELSE err
    IN  [f EXCEPT !.pc = "done", !.err = e, !.status = StatusOf(e)]

Responded(f, status) == [f EXCEPT !.pc = "done", !.status = status]


(***************************************************************************)
(* Initial state: an empty store, no request in flight                     *)
(***************************************************************************)
Init ==
    /\ now = 0
    /\ kv = [k \in KvKeys |-> NoEntry]
    /\ rev \in {1, 2}
    /\ client = NoGrant
    /\ authenticatedClient = None
    /\ req = [p \in Requests |-> Idle]
    /\ handed = [n \in Nonces |-> Never]
    /\ stored = [n \in Nonces |-> Never]

\* time passes
Tick ==
    /\ now + TickMs <= MaxTime
    /\ now' = now + TickMs
    /\ kv' = KvSweep(kv, now + TickMs)
    /\ UNCHANGED <<rev, client, authenticatedClient, req, handed, stored>>

(***************************************************************************)
(* GET /linkedin/oauth/login                                               *)
(***************************************************************************)
\* the router reads nonAuthClient.loginUrl: a url whose state is a fresh nonce
Login(p, nonce, urlOnly) ==
    /\ Free(p)
    /\ req' = [req EXCEPT ![p] =
                 Responded([Idle EXCEPT !.route = "login", !.state = nonce],
                           IF urlOnly THEN 200 ELSE 302)]
    /\ handed' = [handed EXCEPT ![nonce] = now]
    /\ UNCHANGED <<now, authenticatedClient, kv, rev, client, stored>>

\* LinkedInController.loginUrl (first revision): the client's url, its nonce
\* written to the store
loginUrl(nonce) ==
    /\ rev = 1
    /\ kv' = loginUrlSet(kv, now, nonce)
    /\ stored' = [stored EXCEPT ![nonce] = now]
    /\ UNCHANGED <<now, authenticatedClient, rev, client, req, handed>>

(***************************************************************************)
(* GET /linkedin/oauth/callback                                            *)
(***************************************************************************)
\* a route that looks for code and state before it looks for error
CallbackCodeFirst(p, hasError, code, state) ==
    /\ Free(p)
    /\ LET f == [Idle EXCEPT !.route = "callback", !.state = state,
                             !.nonceOk = (state # None /\ validateNonce(kv, now, state))]
       IN  req' = [req EXCEPT ![p] =
                 IF code = None \/ state = None
                 THEN [f EXCEPT !.pc = "done", !.err = "UnprocessableEntity", !.status = 422]
                 ELSE IF hasError
                 THEN [f EXCEPT !.pc = "done", !.err = "BadRequest", !.status = 400]
                 ELSE [f EXCEPT !.pc = "exchangeAccessToken"]]
    /\ UNCHANGED <<now, authenticatedClient, kv, rev, client, handed, stored>>

\* the boundary checks of the route
Callback(p, hasError, code, state) ==
    /\ Free(p)
    /\ LET f == [Idle EXCEPT !.route = "callback", !.state = state,
                             !.nonceOk = (state # None /\ validateNonce(kv, now, state))]
       IN  req' = [req EXCEPT ![p] =
                 IF hasError THEN [f EXCEPT !.pc = "done", !.err = "BadRequest", !.status = 400]
                 ELSE IF code = None \/ state = None
                 THEN [f EXCEPT !.pc = "done", !.err = "UnprocessableEntity", !.status = 422]
                 ELSE [f EXCEPT !.pc = "exchangeAccessToken"]]
    /\ UNCHANGED <<now, authenticatedClient, kv, rev, client, handed, stored>>

\* controller.exchangeAccessToken(code, state), up to the answer of the provider
\*   first revision:  data = client.exchangeAccessToken; setTokens(data);
\*                    validateAccessToken()
\*   second revision: this.client = authClient.exchangeLoginToken;
\*                    validateAccessToken(); setTokens(the client's tokens)
exchangeAccessToken(p, ans) ==
    LET f == [req[p] EXCEPT !.exchanges = @ + 1, !.t0 = now] IN
    /\ req[p].pc = "exchangeAccessToken"
    /\ IF ans.kind = "network_error"
       THEN /\ req' = [req EXCEPT ![p] = Thrown(f, "TypeError")]
            /\ UNCHANGED <<kv, client>>
       ELSE IF ans.kind # "ok"
       THEN /\ req' = [req EXCEPT ![p] = Thrown(f, "ZodError")]
            /\ UNCHANGED <<kv, client>>
       ELSE LET data == accessTokenResponseSchema(ans.body) IN
            IF rev = 1
            THEN /\ kv' = setTokens(kv, now, data)
                 /\ req' = [req EXCEPT ![p] =
                        [f EXCEPT !.data = data, !.wrote = TRUE, !.refreshes = 0,
                                  !.pc = "getAccessToken", !.ret = "getTokenUserProfile",
                                  !.after = "respond"]]
                 /\ UNCHANGED client
            ELSE /\ client' = data
                 /\ req' = [req EXCEPT ![p] =
                        [f EXCEPT !.data = data, !.refreshes = 0,
                                  !.pc = "getAccessToken", !.ret = "getTokenUserProfile",
                                  !.after = "setTokens"]]
                 /\ UNCHANGED kv
    /\ UNCHANGED <<now, authenticatedClient, rev, handed, stored>>


\* client.sharePost(post, accessToken) is called: the publish POST is sent
\* with JSON.stringify(post.payload)
SendPost(f, t) ==
    [Sends(f, t, "post") EXCEPT !.pc = "sharePost",
                                !.payload = payload(f.text, authorizedUserURN, f.post)]

\* an enrichArticle that fetches the page unless the article has everything
enrichArticleNoShortCircuit(f, t) ==
    IF Truthy(f.input.thumbnail) /\ Truthy(f.input.title)
         /\ Truthy(f.input.description)
    THEN SendPost([f EXCEPT !.article = f.input, !.post = addArticle(f.input)], t)
    ELSE [f EXCEPT !.article = f.input, !.fetches = @ + 1, !.pc = "fetchDOMFromURL"]

\* post.addArticle(await this.enrichArticle(media)), up to the fetch of the
\* page: an article with thumbnail and title is returned as it is
enrichArticle(f, t) ==
    IF Truthy(f.input.thumbnail) /\ Truthy(f.input.title)
    THEN SendPost([f EXCEPT !.article = f.input, !.post = addArticle(f.input)], t)
    ELSE [f EXCEPT !.article = f.input, !.fetches = @ + 1, !.pc = "fetchDOMFromURL"]

\* sharePost once it has its accessToken: the branch on the media, up to the
\* first await of the branch
Media(f, t) ==
    CASE f.media = "video" -> [f EXCEPT !.pc = "fetchVideo"]
      [] f.media \in {"image", "document"} ->
             [Sends(f, t, "initializeUpload") EXCEPT !.pc = "initializeUpload"]
      [] f.media = "article" -> enrichArticle(f, t)
      [] OTHER -> SendPost(f, t)

(***************************************************************************)
(* LinkedInController.getAccessToken / validateAccessToken                 *)
(***************************************************************************)
\* a getAccessToken that waits for the refresh another request has in flight
getAccessTokenSerialised(p) ==
    LET f == req[p]
        accessToken == KvGet(kv, now, KeyAccessToken)
        refreshToken == KvGet(kv, now, KeyRefreshToken)
    IN
    /\ f.pc = "getAccessToken"
    /\ req' = [req EXCEPT ![p] =
                 IF accessToken # None
                 THEN [f EXCEPT !.tok = accessToken, !.tokExp = kv[KeyAccessToken].exp,
                                !.pc = f.ret]
                 ELSE IF refreshToken = None
                 THEN Thrown(f, "ExpiredTokenError")
                 ELSE IF \E q \in Requests \ {p} : req[q].pc = "refreshAccessToken"
                 THEN [f EXCEPT !.pc = "awaitRefresh"]
                 ELSE [f EXCEPT !.pc = "refreshAccessToken", !.rtok = refreshToken]]
    /\ UNCHANGED <<now, authenticatedClient, kv, rev, client, handed, stored>>

\* getAccessToken(), up to the refresh request: both tokens are read; a present
\* access token is returned, no refresh token is an ExpiredTokenError.  The
\* caller goes on at f.ret: validateAccessToken with the profile call,
\* sharePost with the branch on the media, enrichArticle with the
\* initializeUpload of the thumbnail
getAccessToken(p) ==
    LET f == req[p]
        accessToken == KvGet(kv, now, KeyAccessToken)
        refreshToken == KvGet(kv, now, KeyRefreshToken)
    IN
    /\ f.pc = "getAccessToken"
    /\ req' = [req EXCEPT ![p] =
                 IF accessToken # None
                 THEN LET g == [f EXCEPT !.tok = accessToken,
                                         !.tokExp = kv[KeyAccessToken].exp]
                      IN  IF f.ret = "sharePost" THEN Media(g, now)
                          ELSE IF f.ret = "initializeUpload"
                          THEN [Sends(g, now, "initializeUpload")
                                   EXCEPT !.pc = "initializeUpload"]
                          ELSE [g EXCEPT !.pc = f.ret]
                 ELSE IF refreshToken = None
                 THEN Thrown(f, "ExpiredTokenError")
                 ELSE [f EXCEPT !.pc = "refreshAccessToken", !.rtok = refreshToken]]
    /\ client' = IF rev = 2
                 THEN [client EXCEPT
                         !.refresh_token = IF refreshToken # None THEN refreshToken ELSE @,
                         !.access_token = IF accessToken # None THEN accessToken ELSE @]
                 ELSE client
    /\ UNCHANGED <<now, authenticatedClient, kv, rev, handed, stored>>

\* client.refreshAccessToken(refreshToken) and what getAccessToken does with its
\* result: null (a non-2xx answer) clears the tokens and is an
\* ExpiredTokenError, a token response is persisted and getAccessToken is
\* entered again; a rejected fetch and a schema mismatch are thrown as they are
refreshAccessToken(p, ans) ==
    LET f == [req[p] EXCEPT !.refreshes = @ + 1, !.refreshAns = ans.kind,
                            !.refreshed = TRUE] IN
    /\ req[p].pc = "refreshAccessToken"
    /\ req[p].refreshes < MaxRefreshes
    /\ IF ans.kind = "network_error"
       THEN /\ req' = [req EXCEPT ![p] = Thrown(f, "TypeError")]
            /\ UNCHANGED <<kv, client>>
       ELSE IF ans.kind = "bad_body"
       THEN /\ req' = [req EXCEPT ![p] = Thrown(f, "ZodError")]
            /\ UNCHANGED <<kv, client>>
       ELSE IF ans.kind = "http_error"
       THEN /\ kv' = clearTokens(kv)
            /\ client' = IF rev = 2 THEN NoGrant ELSE client
            /\ req' = [req EXCEPT ![p] =
                         Thrown([f EXCEPT !.cleared = TRUE], "ExpiredTokenError")]
       ELSE LET data == accessTokenResponseSchema(ans.body) IN
            /\ kv' = setTokens(kv, now, data)
            /\ client' = IF rev = 2 THEN data ELSE client
            /\ req' = [req EXCEPT ![p] =
                         [f EXCEPT !.pc = "getAccessToken", !.wrote = TRUE,
                                   !.persisted = data.access_token]]
    /\ UNCHANGED <<now, authenticatedClient, rev, handed, stored>>

\* validateAccessToken() from the answer of client.getTokenUserProfile(accessToken)
\* on: no profile is a WrongTokenError, a profile of another account clears the
\* tokens and is a WrongTokenError, the allowed account's profile returns true to
\* the caller (f.after)
getTokenUserProfile(p, ans) ==
    LET f == [req[p] EXCEPT !.profileAns = ans] IN
    /\ req[p].pc = "getTokenUserProfile"
    /\ IF ans = "network_error"
       THEN /\ req' = [req EXCEPT ![p] = Thrown(f, "TypeError")]
            /\ UNCHANGED <<kv, client>>
       ELSE IF ans \in {"unauthorized", "http_error"}
       THEN /\ req' = [req EXCEPT ![p] = Thrown(f, "WrongTokenError")]
            /\ UNCHANGED <<kv, client>>
       ELSE IF ans = "ok_noid" \/ ProfileId(f.tok) # allowedUserId
       THEN /\ kv' = clearTokens(kv)
            /\ client' = IF rev = 2 THEN NoGrant ELSE client
            /\ req' = [req EXCEPT ![p] =
                         Thrown([f EXCEPT !.cleared = TRUE], "WrongTokenError")]
       ELSE IF f.after = "setTokens"
       THEN /\ kv' = setTokens(kv, now, client)
            /\ req' = [req EXCEPT ![p] = Responded([f EXCEPT !.wrote = TRUE], 200)]
            /\ UNCHANGED client
       ELSE IF f.after = "sharePost"
       THEN /\ req' = [req EXCEPT ![p] =
                         [f EXCEPT !.pc = "getAccessToken", !.ret = "sharePost",
                                   !.refreshes = 0, !.validated = f.tok]]
            /\ UNCHANGED <<kv, client>>
       ELSE /\ req' = [req EXCEPT ![p] = Responded(f, 200)]
            /\ UNCHANGED <<kv, client>>
    /\ UNCHANGED <<now, authenticatedClient, rev, handed, stored>>

(***************************************************************************)
(* GET /linkedin/oauth/tokens                                              *)
(***************************************************************************)
Tokens(p) ==
    /\ Free(p)
    /\ rev = 1
    /\ req' = [req EXCEPT ![p] =
                 [Idle EXCEPT !.route = "tokens", !.pc = "getAccessToken",
                              !.ret = "getTokenUserProfile", !.after = "respond"]]
    /\ UNCHANGED <<now, authenticatedClient, kv, rev, client, handed, stored>>

(***************************************************************************)
(* POST /linkedin/ : validateBody, validateAccessToken, sharePost           *)
(***************************************************************************)
\* a route that calls sharePost without validateAccessToken
PostUnvalidated(p, bodyOk, media, ncomments) ==
    /\ Free(p)
    /\ rev = 1
    /\ \E text \in Texts :
         LET f == [Idle EXCEPT !.route = "post", !.media = TypeOf(media),
                               !.text = text, !.input = media,
                               !.ncomments = ncomments]
         IN  req' = [req EXCEPT ![p] =
                 IF bodyOk
                 THEN [f EXCEPT !.pc = "getAccessToken", !.ret = "sharePost",
                                !.bodyOk = TRUE]
                 ELSE Thrown(f, "ZodError")]
    /\ UNCHANGED <<now, authenticatedClient, kv, rev, client, handed, stored>>

\* the route: a body failing the schema is a ZodError of validateBody, else
\* validateAccessToken is entered
Post(p, bodyOk, media, ncomments) ==
    /\ Free(p)
    /\ rev = 1
    /\ \E text \in Texts :
         LET f == [Idle EXCEPT !.route = "post", !.media = TypeOf(media),
                               !.text = text, !.input = media,
                               !.ncomments = ncomments]
         IN  req' = [req EXCEPT ![p] =
                 IF bodyOk
                 THEN [f EXCEPT !.pc = "getAccessToken", !.ret = "getTokenUserProfile",
                                !.after = "sharePost", !.bodyOk = TRUE]
                 ELSE Thrown(f, "ZodError")]
    /\ UNCHANGED <<now, authenticatedClient, kv, rev, client, handed, stored>>

\* enrichArticle from the answer of fetchDOMFromURL(media.source) on.  No
\* document: the media is returned as it came.  A document: the loop over
\* title, thumbnail and description; a value found is assigned to the article
\* for the thumbnail only, after its upload, which begins with getAccessToken.
\* A fetch that rejects rejects the race, and enrichArticle with it.
fetchDOMFromURL(p, ans, page) ==
    LET f == [req[p] EXCEPT !.domAns = ans, !.page = page]
        thumbnail == validatedProperty(f.article, "thumbnail", page)
    IN
    /\ req[p].pc = "fetchDOMFromURL"
    /\ ans = "ok" \/ page = NoPage
    /\ req' = [req EXCEPT ![p] =
                 IF ans = "network_error" THEN Thrown(f, "TypeError")
                 ELSE IF ans # "ok"
                 THEN SendPost([f EXCEPT !.article = f.input,
                                         !.post = addArticle(f.input)], now)
                 ELSE IF Truthy(thumbnail)
                 THEN [f EXCEPT !.scraped = thumbnail, !.pc = "getAccessToken",
                                !.ret = "initializeUpload", !.refreshes = 0]
                 ELSE SendPost([f EXCEPT !.post = addArticle(f.article)], now)]
    /\ UNCHANGED <<now, authenticatedClient, kv, rev, client, handed, stored>>

\* video: fetch(media.source) answered; initializeVideoUpload is sent
fetchVideo(p, ok) ==
    /\ req[p].pc = "fetchVideo"
    /\ req' = [req EXCEPT ![p] =
                 IF ok THEN [Sends(req[p], now, "initializeUpload")
                                EXCEPT !.pc = "initializeUpload"]
                 ELSE Thrown(req[p], "TypeError")]
    /\ UNCHANGED <<now, authenticatedClient, kv, rev, client, handed, stored>>

\* baseInitializeUpload answered: a non-2xx answer or one without value is a
\* FailedToShareError; a video goes on to uploadVideo with the n upload
\* instructions of the answer, an image or document to uploadImageOrDocument,
\* which first downloads the source
initializeUpload(p, ans, n) ==
    LET f == [req[p] EXCEPT !.initAns = ans]
        urn == UrnOf(IF f.media = "article" THEN "image" ELSE f.media)
    IN
    /\ f.pc = "initializeUpload"
    /\ (f.media = "video" /\ ans = "ok") \/ n = 1
    /\ req' = [req EXCEPT ![p] =
                 IF ans # "ok" THEN Thrown(f, "FailedToShareError")
                 ELSE IF f.media = "video"
                 THEN [f EXCEPT !.pc = "uploadVideo", !.nchunks = n,
                                !.upload = [uploadUrl |-> UploadUrl, urn |-> urn],
                                !.post = addMedia(f.media, f.input.title, urn)]
                 ELSE [f EXCEPT !.pc = "fetchSource",
                                !.upload = [uploadUrl |-> UploadUrl, urn |-> urn]]]
    /\ UNCHANGED <<now, authenticatedClient, kv, rev, client, handed, stored>>

\* the uploadUrl argument of uploadImageOrDocument: sharePost passes the
\* uploadUrl of initializeImageOrDocumentUpload, enrichArticle its urn
uploadUrlOf(f) ==
    IF f.media = "article" THEN f.upload.urn ELSE f.upload.uploadUrl

\* uploadImageOrDocument(uploadUrl, source, accessToken): the source is
\* downloaded and the PUT is given to fetch, which rejects what is no url
fetchSource(p, ok) ==
    LET f == req[p] IN
    /\ f.pc = "fetchSource"
    /\ req' = [req EXCEPT ![p] =
                 IF ~ok THEN Thrown(f, "TypeError")
                 ELSE IF IsHttpUrl(uploadUrlOf(f))
                 THEN [Sends(f, now, "put") EXCEPT !.pc = "uploadImageOrDocument",
                                                   !.putTo = uploadUrlOf(f)]
                 ELSE Thrown([f EXCEPT !.putTo = uploadUrlOf(f)], "TypeError")]
    /\ UNCHANGED <<now, authenticatedClient, kv, rev, client, handed, stored>>

\* uploadImageOrDocument returned true: sharePost adds the media to the post,
\* enrichArticle makes the urn the article's thumbnail, goes through the turn
\* for the description and returns the article; the publish POST is sent
Uploaded(f, t) ==
    IF f.media = "article"
    THEN LET article == [f.article EXCEPT !.thumbnail = f.upload.urn]
         IN  SendPost([f EXCEPT !.article = article, !.post = addArticle(article)], t)
    ELSE SendPost([f EXCEPT !.post = addMedia(f.media, f.input.title, f.upload.urn)], t)

\* an uploadImageOrDocument that does not look at the status of the PUT
uploadImageOrDocumentUnchecked(p, ans) ==
    LET f == [req[p] EXCEPT !.putAns = ans] IN
    /\ f.pc = "uploadImageOrDocument"
    /\ req' = [req EXCEPT ![p] = Uploaded(f, now)]
    /\ UNCHANGED <<now, authenticatedClient, kv, rev, client, handed, stored>>

\* uploadImageOrDocument: the PUT answered; non-2xx is a FailedToShareError,
\* else the controller sends the publish POST
uploadImageOrDocument(p, ans) ==
    LET f == [req[p] EXCEPT !.putAns = ans] IN
    /\ f.pc = "uploadImageOrDocument"
    /\ req' = [req EXCEPT ![p] =
                 IF ans = "ok" THEN Uploaded(f, now)
                 ELSE Thrown(f, "FailedToShareError")]
    /\ UNCHANGED <<now, authenticatedClient, kv, rev, client, handed, stored>>

\* uploadVideo, one turn of its loop over urlArray: chunk.arrayBuffer() has
\* resolved and the PUT of the next chunk is pushed to promises
uploadVideo(p) ==
    LET f == req[p]
        i == f.issued + 1
    IN
    /\ f.pc = "uploadVideo"
    /\ f.issued < f.nchunks
    /\ req' = [req EXCEPT ![p] =
                 [Sends(f, now, "put") EXCEPT !.issued = i, !.chunks[i].pc = "sent"]]
    /\ UNCHANGED <<now, authenticatedClient, kv, rev, client, handed, stored>>

\* an all that hands the responses over in the order they arrived
PromiseAllByArrival(chunks, n, arrived) == [k \in 1..n |-> chunks[arrived[k]]]

\* Promise.all(promises): one response for each promise, at the promise's place
PromiseAll(chunks, n, arrived) == [i \in 1..n |-> chunks[i]]

\* an uploadVideo that goes on to the finalize request at the first answer that
\* comes once every PUT is pushed
chunkPutFirstAnswer(p, i, ans) ==
    LET f == req[p]
        chunks == [f.chunks EXCEPT ![i] = [pc |-> "answered", ok |-> ans.ok,
                                            etag |-> ans.etag]]
        g == [f EXCEPT !.chunks = chunks, !.arrived = Append(f.arrived, i)]
    IN
    /\ f.pc = "uploadVideo"
    /\ f.chunks[i].pc = "sent"
    /\ req' = [req EXCEPT ![p] =
                 IF f.issued = f.nchunks
                 THEN [g EXCEPT !.pc = "delay", !.retries = FinalizeRetries,
                                !.ETags = [j \in 1..f.nchunks |-> chunks[j].etag]]
                 ELSE g]
    /\ UNCHANGED <<now, authenticatedClient, kv, rev, client, handed, stored>>

\* the PUT of chunk i answered (its status is not looked at).  With every PUT
\* pushed and answered Promise.all resolves: the etag headers of the responses
\* are the ETags, and delay(500) is awaited before the finalize request
chunkPut(p, i, ans) ==
    LET f == req[p]
        chunks == [f.chunks EXCEPT ![i] = [pc |-> "answered", ok |-> ans.ok,
                                            etag |-> ans.etag]]
        arrived == Append(f.arrived, i)
        g == [f EXCEPT !.chunks = chunks, !.arrived = arrived]
        responses == PromiseAll(chunks, f.nchunks, arrived)
    IN
    /\ f.pc = "uploadVideo"
    /\ f.chunks[i].pc = "sent"
    /\ req' = [req EXCEPT ![p] =
                 IF f.issued = f.nchunks /\ \A j \in 1..f.nchunks : chunks[j].pc = "answered"
                 THEN [g EXCEPT !.pc = "delay", !.retries = FinalizeRetries,
                                !.ETags = [j \in 1..f.nchunks |-> responses[j].etag]]
                 ELSE g]
    /\ UNCHANGED <<now, authenticatedClient, kv, rev, client, handed, stored>>

\* the delay before a finalize request is over: the request is sent
delay(p) ==
    /\ req[p].pc = "delay"
    /\ req' = [req EXCEPT ![p] =
                 [Sends(req[p], now, "finalizeUpload") EXCEPT !.pc = "finalizeVideoUpload"]]
    /\ UNCHANGED <<now, authenticatedClient, kv, rev, client, handed, stored>>

\* a finalizeVideoUpload that gives up with one retry left
finalizeVideoUploadOneLess(p, ans) ==
    LET f == [req[p] EXCEPT !.finalizeAns = ans] IN
    /\ f.pc = "finalizeVideoUpload"
    /\ req' = [req EXCEPT ![p] =
                 IF ans = "ok" THEN SendPost(f, now)
                 ELSE IF f.retries <= 1 THEN Thrown(f, "FailedToShareError")
                 ELSE [f EXCEPT !.pc = "delay",
                                !.waits = Append(@, 500 * f.retries + 1),
                                !.retries = f.retries - 1]]
    /\ UNCHANGED <<now, authenticatedClient, kv, rev, client, handed, stored>>

\* finalizeVideoUpload(accessToken, .., retries) answered: 2xx returns true and
\* the controller sends the publish POST; non-2xx with retries = 0 is a
\* FailedToShareError, otherwise delay(500 * retries + 1) and again with
\* retries - 1
finalizeVideoUpload(p, ans) ==
    LET f == [req[p] EXCEPT !.finalizeAns = ans] IN
    /\ f.pc = "finalizeVideoUpload"
    /\ req' = [req EXCEPT ![p] =
                 IF ans = "ok" THEN SendPost(f, now)
                 ELSE IF f.retries = 0 THEN Thrown(f, "FailedToShareError")
                 ELSE [f EXCEPT !.pc = "delay",
                                !.waits = Append(@, 500 * f.retries + 1),
                                !.retries = f.retries - 1]]
    /\ UNCHANGED <<now, authenticatedClient, kv, rev, client, handed, stored>>

\* a loop that stops after the first comment
CommentOrderFirstOnly(n) == [i \in 1..(IF n > 0 THEN 1 ELSE 0) |-> i]

\* a loop that visits the comments from the last to the first
CommentOrderReversed(n) == [i \in 1..n |-> n + 1 - i]

\* for (const comment of comments): the comments in the order they are visited
CommentOrder(n) == [i \in 1..n |-> i]

\* the loop over the comments: postComment is called for each in turn and runs
\* up to its fetch, so the first POST of each is sent before the next is visited
RECURSIVE StartComments(_, _, _)
StartComments(f, order, t) ==
    IF order = <<>> THEN f
    ELSE LET i == Head(order)
             g == [f EXCEPT !.comments[i] = [@ EXCEPT !.pc = "posting", !.posts = 1,
                                                     !.retries = CommentRetries],
                            !.firsts = Append(@, i),
                            !.stale = @ \/ (f.tokExp # Never /\ t >= f.tokExp)]
         IN  StartComments(g, Tail(order), t)

\* sharePost returned { postUrl, postUrn }: the route answers 201 with it as
\* the body and sets the Location and X-LinkedIn-Post-URN headers
Created(f) ==
    [Responded(f, 201) EXCEPT
        !.body = [postUrn |-> RestliId, postUrl |-> postUrlOf(RestliId)],
        !.headers = ("Location" :> postUrlOf(RestliId))
                        @@ ("X-LinkedIn-Post-URN" :> RestliId)]

\* a sharePost that takes every 2xx answer for a success
sharePostAny2xx(p, ans) ==
    LET f == [req[p] EXCEPT !.publishAns = ans] IN
    /\ f.pc = "sharePost"
    /\ req' = [req EXCEPT ![p] =
                 IF ans \in {"ok", "ok_noid"}
                 THEN Created(StartComments(f, CommentOrder(f.ncomments), now))
                 ELSE Thrown(f, "FailedToShareError")]
    /\ UNCHANGED <<now, authenticatedClient, kv, rev, client, handed, stored>>

\* client.sharePost answered: non-2xx, or no x-restli-id, is a
\* FailedToShareError; else the first POST of every comment is sent, none is
\* awaited, and the route answers 201
sharePost(p, ans) ==
    LET f == [req[p] EXCEPT !.publishAns = ans] IN
    /\ f.pc = "sharePost"
    /\ req' = [req EXCEPT ![p] =
                 IF ans = "ok"
                 THEN Created(StartComments(f, CommentOrder(f.ncomments), now))
                 ELSE Thrown(f, "FailedToShareError")]
    /\ UNCHANGED <<now, authenticatedClient, kv, rev, client, handed, stored>>

\* a postComment that retries on every non-2xx answer
postCommentRetryAny(p, i, ans) ==
    LET c == [req[p].comments[i] EXCEPT !.last = ans] IN
    /\ c.pc = "posting"
    /\ req' = [req EXCEPT ![p].comments[i] =
                 IF ans # "ok" /\ c.retries > 0
                 THEN [c EXCEPT !.pc = "delay", !.waits = Append(@, 500 * c.retries + 1)]
                 ELSE IF ans = "ok" THEN [c EXCEPT !.pc = "ok"]
                 ELSE [c EXCEPT !.pc = "failed"]]
    /\ UNCHANGED <<now, authenticatedClient, kv, rev, client, handed, stored>>

\* a postComment whose failure is thrown to the caller of sharePost
postCommentSurfaces(p, i, ans) ==
    LET c == [req[p].comments[i] EXCEPT !.last = ans]
        f == req[p]
    IN
    /\ c.pc = "posting"
    /\ req' = [req EXCEPT ![p] =
                 IF ans = "not_found" /\ c.retries > 0
                 THEN [f EXCEPT !.comments[i] =
                          [c EXCEPT !.pc = "delay", !.waits = Append(@, 500 * c.retries + 1)]]
                 ELSE IF ans = "ok" THEN [f EXCEPT !.comments[i] = [c EXCEPT !.pc = "ok"]]
                 ELSE Thrown([f EXCEPT !.comments[i] = [c EXCEPT !.pc = "failed"]],
                             "FailedToShareError")]
    /\ UNCHANGED <<now, authenticatedClient, kv, rev, client, handed, stored>>

\* postComment(.., accessToken, .., retries) answered: 404 with retries left
\* awaits delay(500 * retries + 1); 2xx returns the comment urn; anything else
\* is a FailedToShareError, which the controller only logs
postComment(p, i, ans) ==
    LET c == [req[p].comments[i] EXCEPT !.last = ans] IN
    /\ c.pc = "posting"
    /\ req' = [req EXCEPT ![p].comments[i] =
                 IF ans = "not_found" /\ c.retries > 0
                 THEN [c EXCEPT !.pc = "delay", !.waits = Append(@, 500 * c.retries + 1)]
                 ELSE IF ans = "ok" THEN [c EXCEPT !.pc = "ok"]
                 ELSE [c EXCEPT !.pc = "failed"]]
    /\ UNCHANGED <<now, authenticatedClient, kv, rev, client, handed, stored>>

\* the delay of a comment is over: postComment again with retries - 1
commentDelay(p, i) ==
    LET c == req[p].comments[i] IN
    /\ c.pc = "delay"
    /\ req' = [req EXCEPT ![p].comments[i] =
                    [c EXCEPT !.pc = "posting", !.retries = c.retries - 1,
                              !.posts = c.posts + 1],
                          ![p].stale = @ \/ (req[p].tokExp # Never /\ now >= req[p].tokExp)]
    /\ UNCHANGED <<now, authenticatedClient, kv, rev, client, handed, stored>>

(***************************************************************************)
(* LinkedinClient of src/src/clients/Linkedin.ts: the client that keeps the *)
(* tokens itself.  Its public operations, as a caller may invoke them.     *)
(***************************************************************************)
\* loginUrl: db.set(nonces(nonce), nonce, { expireIn: 60000 })
clientLoginUrlSet(store, t, nonce) == KvSet(store, t, KeyNonces(nonce), nonce, 60000)

\* matchState(state) at time t
matchState(store, t, state) ==
    LET nonce == KvGet(store, t, KeyNonces(state))
    IN  nonce # None /\ nonce = state

\* saveAccessToken(data)
saveAccessToken(store, t, data) ==
    LET s1 == KvSet(store, t, KeyAccessToken, data.access_token, data.expires_in)
    IN  IF data.refresh_token # None
        THEN KvSet(s1, t, KeyRefreshToken, data.refresh_token, data.refresh_token_expires_in)
        ELSE s1

\* the loginUrl getter
clientLoginUrl(nonce) ==
    /\ kv' = clientLoginUrlSet(kv, now, nonce)
    /\ stored' = [stored EXCEPT ![nonce] = now]
    /\ UNCHANGED <<now, authenticatedClient, rev, client, req, handed>>

\* exchangeAccessToken(code, nonce) followed by saveAccessToken(data), the way
\* a callback route uses them
clientExchangeAccessToken(p, ans) ==
    /\ Free(p)
    /\ LET f == [Idle EXCEPT !.route = "clientExchange", !.exchanges = 1, !.t0 = now] IN
       IF ans.kind = "network_error"
       THEN /\ req' = [req EXCEPT ![p] = Thrown(f, "TypeError")]
            /\ kv' = kv
       ELSE IF ans.kind # "ok"
       THEN /\ req' = [req EXCEPT ![p] = Thrown(f, "ZodError")]
            /\ kv' = kv
       ELSE LET data == accessTokenResponseSchema(ans.body) IN
            /\ kv' = saveAccessToken(kv, now, data)
            /\ req' = [req EXCEPT ![p] =
                         Responded([f EXCEPT !.data = data, !.wrote = TRUE], 200)]
    /\ UNCHANGED <<now, authenticatedClient, rev, client, handed, stored>>

\* a call of validateAccessToken()
clientValidateAccessToken(p) ==
    /\ Free(p)
    /\ req' = [req EXCEPT ![p] =
                 [Idle EXCEPT !.route = "clientValidate", !.pc = "accessToken",
                              !.ret = "me"]]
    /\ UNCHANGED <<now, authenticatedClient, kv, rev, client, handed, stored>>

\* accessToken(), up to the refresh request: the stored token when there is
\* one; otherwise refreshAccessToken() is called, which is false at once when
\* refreshToken() throws for want of a refresh token
clientAccessToken(p) ==
    LET f == req[p]
        result == KvGet(kv, now, KeyAccessToken)
        refreshToken == KvGet(kv, now, KeyRefreshToken)
    IN
    /\ f.pc = "accessToken"
    /\ req' = [req EXCEPT ![p] =
                 IF result # None
                 THEN [f EXCEPT !.pc = f.ret, !.tok = result]
                 ELSE IF refreshToken = None
                 THEN Thrown(f, "ExpiredTokenError")
                 ELSE [f EXCEPT !.pc = "refresh", !.after = "accessToken",
                                !.tok = result, !.rtok = refreshToken]]
    /\ UNCHANGED <<now, authenticatedClient, kv, rev, client, handed, stored>>

\* refreshAccessToken() from the provider's answer on, and its caller's
\* continuation.  Every failure is caught and is `false`.
\*   called by accessToken():  false -> ExpiredTokenError;
\*                             true  -> return result.value, the value read
\*                                      before the refresh
\*   called by validateAccessToken() after a 401:
\*                             false -> clearTokens(), ExpiredTokenError;
\*                             true  -> validateAccessToken() again
clientRefreshAccessToken(p, ans) ==
    LET f == [req[p] EXCEPT !.refreshes = @ + 1, !.refreshAns = ans.kind] IN
    /\ req[p].pc = "refresh"
    /\ req[p].refreshes < MaxRefreshes
    /\ IF ans.kind # "ok"
       THEN IF f.after = "accessToken"
            THEN /\ req' = [req EXCEPT ![p] = Thrown(f, "ExpiredTokenError")]
                 /\ kv' = kv
            ELSE /\ req' = [req EXCEPT ![p] =
                              Thrown([f EXCEPT !.cleared = TRUE], "ExpiredTokenError")]
                 /\ kv' = clearTokens(kv)
       ELSE LET data == accessTokenResponseSchema(ans.body) IN
            /\ kv' = saveAccessToken(kv, now, data)
            /\ req' = [req EXCEPT ![p] =
                         [f EXCEPT !.wrote = TRUE, !.persisted = data.access_token,
                                   !.pc = IF f.after = "accessToken" THEN f.ret
                                          ELSE "accessToken"]]
    /\ UNCHANGED <<now, authenticatedClient, rev, client, handed, stored>>

\* validateAccessToken() from the answer of GET /v2/me on; the provider knows
\* no profile for `Bearer null`
clientMe(p, ans) ==
    LET f == [req[p] EXCEPT !.profileAns = ans]
        refreshToken == KvGet(kv, now, KeyRefreshToken)
    IN
    /\ req[p].pc = "me"
    /\ (f.tok = None => ans \notin {"ok", "ok_noid"})
    /\ IF ans = "network_error"
       THEN /\ req' = [req EXCEPT ![p] = Thrown(f, "TypeError")]
            /\ kv' = kv
       ELSE IF ans = "unauthorized"
       THEN IF refreshToken = None
            THEN /\ req' = [req EXCEPT ![p] =
                              Thrown([f EXCEPT !.cleared = TRUE], "ExpiredTokenError")]
                 /\ kv' = clearTokens(kv)
            ELSE /\ req' = [req EXCEPT ![p] =
                              [f EXCEPT !.pc = "refresh", !.after = "validate",
                                        !.rtok = refreshToken]]
                 /\ kv' = kv
       ELSE IF ans \in {"http_error", "ok_noid"} \/ ProfileId(f.tok) # allowedUserId
       THEN /\ req' = [req EXCEPT ![p] =
                         Thrown([f EXCEPT !.cleared = TRUE], "WrongTokenError")]
            /\ kv' = clearTokens(kv)
       ELSE /\ req' = [req EXCEPT ![p] = Responded(f, 200)]
            /\ kv' = kv
    /\ UNCHANGED <<now, authenticatedClient, rev, client, handed, stored>>

(***************************************************************************)
(* TwitterClient of src/src/clients/Twitter.ts and the routes of its       *)
(* router                                                                  *)
(***************************************************************************)
\* config.twitter.clientId and config.server.oauthCallbackBaseUrl
twitterClientId == "TWITTER_CLIENT_ID"
oauthCallbackBaseUrl == "http://localhost:8080"
\* `${config.server.oauthCallbackBaseUrl}/twitter/oauth/callback`
twitterOauthCallbackUrl == <<oauthCallbackBaseUrl, "/twitter/oauth/callback">>

SCOPE == <<"tweet.read", "tweet.write", "users.read", "offline.access">>

\* Array.prototype.join(separator), the parts of the string in a row
RECURSIVE Join(_, _)
Join(parts, separator) ==
    IF parts = <<>> THEN <<>>
    ELSE IF Len(parts) = 1 THEN parts
    ELSE <<Head(parts), separator>> \o Join(Tail(parts), separator)

\* the code verifiers generateOAuth2AuthLink may draw, and the S256 challenge
\* of a verifier
Verifiers == {"v1", "v2"}
CodeChallenge(codeVerifier) == <<"S256", codeVerifier>>

\* client.generateOAuth2AuthLink(redirectUri, { scope }) of a client made with
\* clientId: the query of the url it returns, for the state and the verifier
\* it drew
generateOAuth2AuthLink(clientId, redirectUri, scope, state, codeVerifier) ==
    [codeVerifier |-> codeVerifier,
     state |-> state,
     url |-> [response_type |-> "code",
              client_id |-> clientId,
              redirect_uri |-> redirectUri,
              state |-> state,
              code_challenge |-> CodeChallenge(codeVerifier),
              code_challenge_method |-> "s256",
              scope |-> Join(scope, " ")]]

\* refresh tokens the provider hands out: it answers a refresh with a new one
TwitterRefreshTokens == {"trt1", "trt2"}

\* what loginWithOAuth2 and refreshOAuth2Token can come to: a token result, or
\* a rejection
TwitterTokenAnswers ==
    { [kind |-> "ok", accessToken |-> a, expiresIn |-> e, refreshToken |-> r] :
        a \in AccessTokens, e \in ExpiresInSecs, r \in TwitterRefreshTokens \cup {None} }
    \cup { [kind |-> "error", accessToken |-> None, expiresIn |-> 0, refreshToken |-> None] }

\* the object exchangeAccessToken returns
exchangedTokens(ans) ==
    [token_type |-> "bearer", access_token |-> ans.accessToken,
     expires_in |-> ans.expiresIn, refresh_token |-> ans.refreshToken,
     scope |-> Join(SCOPE, " ")]

\* the tokenObject refreshAccessToken hands to saveAccessToken
tokenObject(ans) ==
    [token_type |-> "bearer", access_token |-> ans.accessToken,
     expires_in |-> ans.expiresIn, scope |-> Join(SCOPE, " "),
     refreshToken |-> ans.refreshToken]

\* accessTokenResponseSchema.parse of Twitter.ts: the keys of the schema are
\* kept, expires_in in milliseconds, an optional key that is missing is
\* undefined, any other key is dropped
twitterAccessTokenResponseSchema(data) ==
    [token_type |-> data.token_type,
     expires_in |-> data.expires_in * 1000,
     access_token |-> data.access_token,
     refresh_token |-> IF "refresh_token" \in DOMAIN data THEN data.refresh_token
                       ELSE None,
     scope |-> data.scope]

\* saveAccessToken(data): the refresh token is written without expiry
twitterSaveAccessToken(store, t, data) ==
    LET accessTokenData == twitterAccessTokenResponseSchema(data)
        s1 == KvSet(store, t, KeyTwitterAccessToken, accessTokenData.access_token,
                    accessTokenData.expires_in)
    IN  IF Truthy(accessTokenData.refresh_token)
        THEN KvSet(s1, t, KeyTwitterRefreshToken, accessTokenData.refresh_token, Never)
        ELSE s1

\* clearTokens()
twitterClearTokens(store) ==
    KvDelete(KvDelete(store, KeyTwitterAccessToken), KeyTwitterRefreshToken)

MAX_TWEET_LENGTH == 280
\* the texts of a thread, and text.length
TweetTexts == {"a", "long"}
TweetLength(text) == IF text = "long" THEN MAX_TWEET_LENGTH + 1 ELSE 1

\* tweets of one thread
MaxTweets == 3
\* z.array(z.string()): the tweets of a body
Threads == UNION { [1..n -> TweetTexts] : n \in 0..MaxTweets }

\* the media of a body: none, or one TwitterMediaObject
Attachments ==
    { <<>>, << [source |-> "https://example.com/a.png", mimeType |-> "image/png"] >> }

\* ids the provider gives the tweets it creates and the media it takes
TweetIds == {"t1", "t2"}
MediaId == "m1"
\* what client.v2.tweet can come to: data with the id of the tweet, an answer
\* with errors or without data, a rejection
TweetAnswers ==
    { [kind |-> "ok", id |-> i] : i \in TweetIds }
    \cup { [kind |-> k, id |-> None] : k \in {"errors", "rejected"} }

\* GET /twitter/oauth/login: getAuthorizeUrl() up to its first db.set, which
\* writes the nonce
twitterLogin(p, nonce, codeVerifier, urlOnly) ==
    LET link == generateOAuth2AuthLink(twitterClientId, twitterOauthCallbackUrl, SCOPE,
                                       nonce, codeVerifier)
    IN
    /\ Free(p)
    /\ kv' = KvSet(kv, now, KeyTwitterNonces(link.state), link.state, 60000)
    /\ req' = [req EXCEPT ![p] =
                 [Idle EXCEPT !.route = "twitterLogin", !.pc = "setCodeVerifier",
                              !.state = link.state, !.verifier = link.codeVerifier,
                              !.link = link.url, !.urlOnly = urlOnly, !.writes = 1]]
    /\ UNCHANGED <<now, authenticatedClient, rev, client, handed, stored>>

\* a getAuthorizeUrl that returns the url once the nonce is written
setCodeVerifierLater(p) ==
    LET f == req[p] IN
    /\ f.pc = "setCodeVerifier"
    /\ req' = [req EXCEPT ![p] =
                 [Responded(f, IF f.urlOnly THEN 200 ELSE 302) EXCEPT
                     !.body = f.link,
                     !.headers = IF f.urlOnly THEN Nothing ELSE ("Location" :> f.link)]]
    /\ UNCHANGED <<now, authenticatedClient, kv, rev, client, handed, stored>>

\* the second db.set writes the code verifier under the nonce; the url is
\* returned and the route answers with it, as a redirect unless urlOnly
setCodeVerifier(p) ==
    LET f == req[p] IN
    /\ f.pc = "setCodeVerifier"
    /\ kv' = KvSet(kv, now, KeyCodeVerifier(f.state), f.verifier, 60000)
    /\ req' = [req EXCEPT ![p] =
                 [Responded(f, IF f.urlOnly THEN 200 ELSE 302) EXCEPT
                     !.writes = @ + 1,
                     !.body = f.link,
                     !.headers = IF f.urlOnly THEN Nothing ELSE ("Location" :> f.link)]]
    /\ UNCHANGED <<now, authenticatedClient, rev, client, handed, stored>>

\* the tweet createTweet is about: its text and its media; undefined for the
\* first text of a thread without tweets
TextOf(f) == IF f.k <= Len(f.tweets) THEN f.tweets[f.k] ELSE None
MediaOf(f) == IF f.k = 1 THEN f.attachments ELSE <<>>

\* createTweet calls client.v2.tweet(text, options): media_ids when there are
\* any, reply when inReplyTo is given
Tweeting(f, mediaIds) ==
    [f EXCEPT !.pc = "tweet",
              !.tweeted = Append(@, [text |-> TextOf(f), media_ids |-> mediaIds,
                                     in_reply_to_tweet_id |-> f.inReplyTo])]

\* createTweet has its client: the media are uploaded, each after the fetch of
\* its source, or the tweet is sent
AfterClient(f) ==
    IF MediaOf(f) # <<>> THEN [f EXCEPT !.pc = "fetchMedia"] ELSE Tweeting(f, <<>>)

\* validateAccessToken() returned: the tokens route answers 200, createTweet
\* goes on with the client it had
AfterValidate(f) ==
    IF f.route = "twitterTokens" THEN Responded(f, 200) ELSE AfterClient(f)

\* validateAccessToken() in frame f, up to the refresh request: a stored access
\* token is enough; without one refreshAccessToken() is false at once when no
\* refresh token is stored, the tokens are cleared and the error is an
\* ExpiredTokenError
twitterValidateAccessToken(p, f) ==
    LET accessToken == KvGet(kv, now, KeyTwitterAccessToken)
        refreshToken == KvGet(kv, now, KeyTwitterRefreshToken)
    IN
    IF accessToken # None
    THEN /\ req' = [req EXCEPT ![p] = AfterValidate(f)]
         /\ kv' = kv
    ELSE IF refreshToken = None
    THEN /\ req' = [req EXCEPT ![p] =
                      Thrown([f EXCEPT !.cleared = TRUE], "ExpiredTokenError")]
         /\ kv' = twitterClearTokens(kv)
    ELSE /\ req' = [req EXCEPT ![p] = [f EXCEPT !.pc = "twitterRefresh",
                                                !.rtok = refreshToken]]
         /\ kv' = kv

\* GET /twitter/oauth/tokens
twitterTokens(p) ==
    /\ Free(p)
    /\ twitterValidateAccessToken(p, [Idle EXCEPT !.route = "twitterTokens"])
    /\ UNCHANGED <<now, authenticatedClient, rev, client, handed, stored>>

\* refreshAccessToken() from the answer of refreshOAuth2Token on: the client of
\* the answer becomes the authenticatedClient and the tokenObject is saved; a
\* rejection is caught and is false, on which validateAccessToken clears the
\* tokens and throws
twitterRefreshAccessToken(p, ans) ==
    LET f == [req[p] EXCEPT !.refreshes = @ + 1, !.refreshAns = ans.kind,
                            !.refreshed = TRUE, !.granted = ans.refreshToken] IN
    /\ req[p].pc = "twitterRefresh"
    /\ IF ans.kind = "ok"
       THEN /\ authenticatedClient' = ans.accessToken
            /\ kv' = twitterSaveAccessToken(kv, now, tokenObject(ans))
            /\ req' = [req EXCEPT ![p] =
                         AfterValidate([f EXCEPT !.wrote = TRUE,
                                                 !.persisted = ans.accessToken])]
       ELSE /\ authenticatedClient' = authenticatedClient
            /\ kv' = twitterClearTokens(kv)
            /\ req' = [req EXCEPT ![p] =
                         Thrown([f EXCEPT !.cleared = TRUE], "ExpiredTokenError")]
    /\ UNCHANGED <<now, rev, client, handed, stored>>

\* POST /twitter/thread with a body of the schema: createThread's checks of
\* the texts, then createTweet for the first
createThread(p, tweets, media, ignoreCharacterLimit) ==
    LET f == [Idle EXCEPT !.route = "thread", !.tweets = tweets, !.attachments = media,
                          !.ignore = ignoreCharacterLimit, !.k = 1]
    IN
    /\ Free(p)
    /\ req' = [req EXCEPT ![p] =
                 IF ~ignoreCharacterLimit
                      /\ \E i \in DOMAIN tweets : TweetLength(tweets[i]) > MAX_TWEET_LENGTH
                 THEN Thrown(f, "MaxTextSizeError")
                 ELSE [f EXCEPT !.pc = "createTweet"]]
    /\ UNCHANGED <<now, authenticatedClient, kv, rev, client, handed, stored>>

\* createTweet({ text, media, ignoreCharacterLimit }, inReplyTo) up to its
\* first request: the check of the text, whose length cannot be read when it
\* is undefined, and getAuthenticatedClient(), which validates the access
\* token when there is a client and makes one of the stored access token when
\* there is none
createTweet(p) ==
    LET f == req[p]
        accessToken == KvGet(kv, now, KeyTwitterAccessToken)
    IN
    /\ f.pc = "createTweet"
    /\ IF ~f.ignore /\ TextOf(f) = None
       THEN /\ req' = [req EXCEPT ![p] = Thrown(f, "TypeError")]
            /\ UNCHANGED <<kv, authenticatedClient>>
       ELSE IF ~f.ignore /\ TweetLength(TextOf(f)) > MAX_TWEET_LENGTH
       THEN /\ req' = [req EXCEPT ![p] = Thrown(f, "MaxTextSizeError")]
            /\ UNCHANGED <<kv, authenticatedClient>>
       ELSE IF authenticatedClient # None
       THEN /\ twitterValidateAccessToken(p, f)
            /\ UNCHANGED authenticatedClient
       ELSE IF accessToken = None
       THEN /\ req' = [req EXCEPT ![p] = Thrown(f, "Error")]
            /\ UNCHANGED <<kv, authenticatedClient>>
       ELSE /\ authenticatedClient' = accessToken
            /\ req' = [req EXCEPT ![p] = AfterClient(f)]
            /\ UNCHANGED kv
    /\ UNCHANGED <<now, rev, client, handed, stored>>

\* uploadMediaFromUrl: the fetch of the source answered
fetchMedia(p, ok) ==
    /\ req[p].pc = "fetchMedia"
    /\ req' = [req EXCEPT ![p] =
                 IF ok THEN [req[p] EXCEPT !.pc = "uploadMedia"]
                 ELSE Thrown(req[p], "TypeError")]
    /\ UNCHANGED <<now, authenticatedClient, kv, rev, client, handed, stored>>

\* client.v1.uploadMedia answered: with the media ids the tweet is sent
uploadMedia(p, ok) ==
    /\ req[p].pc = "uploadMedia"
    /\ req' = [req EXCEPT ![p] =
                 IF ok THEN Tweeting(req[p], <<MediaId>>)
                 ELSE Thrown(req[p], "Error")]
    /\ UNCHANGED <<now, authenticatedClient, kv, rev, client, handed, stored>>

\* a createThread that logs the error of a tweet and goes on with the next
tweetGoesOn(p, ans) ==
    LET f == req[p]
        g == IF ans.kind = "ok" THEN [f EXCEPT !.ids = Append(@, ans.id)] ELSE f
    IN
    /\ f.pc = "tweet"
    /\ req' = [req EXCEPT ![p] =
                 IF f.k < Len(f.tweets)
                 THEN [g EXCEPT !.pc = "createTweet", !.k = @ + 1,
                                !.inReplyTo = IF ans.kind = "ok" THEN ans.id ELSE @]
                 ELSE IF g.ids = <<>> THEN Thrown(g, "Error")
                 ELSE [Responded(g, 200) EXCEPT !.body = [threadId |-> g.ids[1]]]]
    /\ UNCHANGED <<now, authenticatedClient, kv, rev, client, handed, stored>>

\* client.v2.tweet answered.  Errors, no data or a rejection: createTweet
\* throws, createThread logs and rethrows.  Data: the tweet's id is the
\* inReplyTo of the next text; after the last the route answers 200 with the
\* id of the first
tweet(p, ans) ==
    LET f == req[p]
        g == [f EXCEPT !.ids = Append(@, ans.id)]
    IN
    /\ f.pc = "tweet"
    /\ req' = [req EXCEPT ![p] =
                 IF ans.kind # "ok" THEN Thrown(f, "Error")
                 ELSE IF f.k < Len(f.tweets)
                 THEN [g EXCEPT !.pc = "createTweet", !.k = @ + 1, !.inReplyTo = ans.id]
                 ELSE [Responded(g, 200) EXCEPT !.body = [threadId |-> g.ids[1]]]]
    /\ UNCHANGED <<now, authenticatedClient, kv, rev, client, handed, stored>>

(***************************************************************************)
(* The check of a callback's state against the stored nonces               *)
(***************************************************************************)
\* a call of the controller's validateNonce(state): the nonce is read and
\* compared, the store is left as it is
callbackValidateNonce(p, state) ==
    /\ Free(p)
    /\ req' = [req EXCEPT ![p] =
                 [Idle EXCEPT !.route = "validateNonce", !.pc = "done", !.state = state,
                              !.nonceOk = validateNonce(kv, now, state)]]
    /\ UNCHANGED <<now, authenticatedClient, kv, rev, client, handed, stored>>

\* a call of the client's matchState(state)
clientMatchState(p, state) ==
    /\ Free(p)
    /\ req' = [req EXCEPT ![p] =
                 [Idle EXCEPT !.route = "matchState", !.pc = "done", !.state = state,
                              !.nonceOk = matchState(kv, now, state)]]
    /\ UNCHANGED <<now, authenticatedClient, kv, rev, client, handed, stored>>

(***************************************************************************)
(* The service                                                             *)
(***************************************************************************)
Next ==
    \/ Tick
    \/ \E p \in Procs, n \in Nonces, urlOnly \in BOOLEAN : Login(p, n, urlOnly)
    \/ \E p \in Procs, hasError \in BOOLEAN, code \in {None, "c1"},
          state \in StateParams \cup {None} : Callback(p, hasError, code, state)
    \/ \E p \in Procs, ans \in TokenAnswers : exchangeAccessToken(p, ans)
    \/ \E p \in Procs : getAccessToken(p)
    \/ \E p \in Procs, ans \in TokenAnswers : refreshAccessToken(p, ans)
    \/ \E p \in Procs, ans \in ProfileAnswers : getTokenUserProfile(p, ans)
    \/ \E p \in Procs : Tokens(p)

Spec == Init /\ [][Next]_vars


\* the routes while the clock stands still
NextAtOnce ==
    \/ \E p \in Procs, n \in Nonces, urlOnly \in BOOLEAN : Login(p, n, urlOnly)
    \/ \E p \in Procs, hasError \in BOOLEAN, code \in {None, "c1"},
          state \in StateParams \cup {None} : Callback(p, hasError, code, state)
    \/ \E p \in Procs, ans \in TokenAnswers : exchangeAccessToken(p, ans)
    \/ \E p \in Procs : getAccessToken(p)
    \/ \E p \in Procs, ans \in TokenAnswers : refreshAccessToken(p, ans)
    \/ \E p \in Procs, ans \in ProfileAnswers : getTokenUserProfile(p, ans)
    \/ \E p \in Procs : Tokens(p)

SpecAtOnce == Init /\ [][NextAtOnce]_vars

\* the operations of the controller's first revision and of the client of
\* src/src/clients/Linkedin.ts, invoked directly
InitApi == Init /\ rev = 1

NextApi ==
    \/ Tick
    \/ \E n \in Nonces : loginUrl(n)
    \/ \E n \in Nonces : clientLoginUrl(n)
    \/ \E p \in Procs, ans \in TokenAnswers : clientExchangeAccessToken(p, ans)
    \/ \E p \in Procs : clientValidateAccessToken(p)
    \/ \E p \in Procs : clientAccessToken(p)
    \/ \E p \in Procs, ans \in TokenAnswers : clientRefreshAccessToken(p, ans)
    \/ \E p \in Procs, ans \in ProfileAnswers : clientMe(p, ans)

SpecApi == InitApi /\ [][NextApi]_vars


\* nonces are issued and states are checked against them
NextNonce ==
    \/ Tick
    \/ \E n \in Nonces : loginUrl(n)
    \/ \E n \in Nonces : clientLoginUrl(n)
    \/ \E p \in Procs, state \in StateParams : callbackValidateNonce(p, state)
    \/ \E p \in Procs, state \in StateParams : clientMatchState(p, state)

SpecNonce == InitApi /\ [][NextNonce]_vars

(***************************************************************************)
(* The share route over a store a login has filled                         *)
(***************************************************************************)
InitPublish ==
    /\ now = 0
    /\ \E b \in TokenBodies :
           kv = setTokens([k \in KvKeys |-> NoEntry], 0, accessTokenResponseSchema(b))
    /\ rev = 1
    /\ client = NoGrant
    /\ authenticatedClient = None
    /\ req = [p \in Requests |-> Idle]
    /\ handed = [n \in Nonces |-> Never]
    /\ stored = [n \in Nonces |-> Never]

NextPublish ==
    \/ Tick
    \/ \E p \in Procs, bodyOk \in BOOLEAN, media \in CompleteInputs, n \in {0, 1} :
           Post(p, bodyOk, media, n)
    \/ \E p \in Procs : getAccessToken(p)
    \/ \E p \in Procs, ans \in TokenAnswers : refreshAccessToken(p, ans)
    \/ \E p \in Procs, ans \in ProfileAnswers : getTokenUserProfile(p, ans)
    \/ \E p \in Procs, ok \in BOOLEAN : fetchVideo(p, ok)
    \/ \E p \in Procs, ans \in UploadAnswers, n \in 1..MaxChunks :
           initializeUpload(p, ans, n)
    \/ \E p \in Procs, ok \in BOOLEAN : fetchSource(p, ok)
    \/ \E p \in Procs, ans \in PutAnswers : uploadImageOrDocument(p, ans)
    \/ \E p \in Procs : uploadVideo(p)
    \/ \E p \in Procs, i \in 1..MaxChunks, ans \in ChunkAnswers : chunkPut(p, i, ans)
    \/ \E p \in Procs : delay(p)
    \/ \E p \in Procs, ans \in PutAnswers : finalizeVideoUpload(p, ans)
    \/ \E p \in Procs, ans \in PublishAnswers : sharePost(p, ans)
    \/ \E p \in Procs, i \in 1..MaxComments, ans \in CommentAnswers : postComment(p, i, ans)
    \/ \E p \in Procs, i \in 1..MaxComments : commentDelay(p, i)

SpecPublish == InitPublish /\ [][NextPublish]_vars

(***************************************************************************)
(* The share route while the stored access token lasts: the uploads of a   *)
(* request without comments, and the comments of a request without upload  *)
(***************************************************************************)
InitShare == InitPublish /\ KvGet(kv, now, KeyAccessToken) # None

NextUpload ==
    \/ \E p \in Procs, bodyOk \in BOOLEAN, media \in CompleteInputs :
           Post(p, bodyOk, media, 0)
    \/ \E p \in Procs : getAccessToken(p)
    \/ \E p \in Procs, ans \in ProfileAnswers : getTokenUserProfile(p, ans)
    \/ \E p \in Procs, ok \in BOOLEAN : fetchVideo(p, ok)
    \/ \E p \in Procs, ans \in UploadAnswers, n \in 1..MaxChunks :
           initializeUpload(p, ans, n)
    \/ \E p \in Procs, ok \in BOOLEAN : fetchSource(p, ok)
    \/ \E p \in Procs, ans \in PutAnswers : uploadImageOrDocument(p, ans)
    \/ \E p \in Procs : uploadVideo(p)
    \/ \E p \in Procs, i \in 1..MaxChunks, ans \in ChunkAnswers : chunkPut(p, i, ans)
    \/ \E p \in Procs : delay(p)
    \/ \E p \in Procs, ans \in PutAnswers : finalizeVideoUpload(p, ans)
    \/ \E p \in Procs, ans \in PublishAnswers : sharePost(p, ans)

SpecUpload == InitShare /\ [][NextUpload]_vars

NextComments ==
    \/ \E p \in Procs, media \in {Nothing, CompleteArticle}, n \in 0..MaxComments :
           Post(p, TRUE, media, n)
    \/ \E p \in Procs : getAccessToken(p)
    \/ \E p \in Procs, ans \in ProfileAnswers : getTokenUserProfile(p, ans)
    \/ \E p \in Procs, ans \in PublishAnswers : sharePost(p, ans)
    \/ \E p \in Procs, i \in 1..MaxComments, ans \in CommentAnswers : postComment(p, i, ans)
    \/ \E p \in Procs, i \in 1..MaxComments : commentDelay(p, i)

SpecComments == InitShare /\ [][NextComments]_vars

\* the share route for every media, an article with any of its optional
\* properties missing, over any page
NextEnrich ==
    \/ \E p \in Procs, bodyOk \in BOOLEAN, media \in MediaInputs :
           Post(p, bodyOk, media, 0)
    \/ \E p \in Procs : getAccessToken(p)
    \/ \E p \in Procs, ans \in ProfileAnswers : getTokenUserProfile(p, ans)
    \/ \E p \in Procs, ans \in DomAnswers, page \in Pages : fetchDOMFromURL(p, ans, page)
    \/ \E p \in Procs, ok \in BOOLEAN : fetchVideo(p, ok)
    \/ \E p \in Procs, ans \in UploadAnswers, n \in 1..MaxChunks :
           initializeUpload(p, ans, n)
    \/ \E p \in Procs, ok \in BOOLEAN : fetchSource(p, ok)
    \/ \E p \in Procs, ans \in PutAnswers : uploadImageOrDocument(p, ans)
    \/ \E p \in Procs : uploadVideo(p)
    \/ \E p \in Procs, i \in 1..MaxChunks, ans \in ChunkAnswers : chunkPut(p, i, ans)
    \/ \E p \in Procs : delay(p)
    \/ \E p \in Procs, ans \in PutAnswers : finalizeVideoUpload(p, ans)
    \/ \E p \in Procs, ans \in PublishAnswers : sharePost(p, ans)

SpecEnrich == InitShare /\ [][NextEnrich]_vars

\* every comment POST sent is answered, and every delay awaited comes to its end
FairComments ==
    \A p \in Procs, i \in 1..MaxComments :
        /\ WF_vars(\E ans \in CommentAnswers : postComment(p, i, ans))
        /\ WF_vars(commentDelay(p, i))

\* the requests with at most one comment
NextOneComment ==
    \/ \E p \in Procs, media \in {Nothing, CompleteArticle}, n \in {0, 1} :
           Post(p, TRUE, media, n)
    \/ \E p \in Procs : getAccessToken(p)
    \/ \E p \in Procs, ans \in ProfileAnswers : getTokenUserProfile(p, ans)
    \/ \E p \in Procs, ans \in PublishAnswers : sharePost(p, ans)
    \/ \E p \in Procs, i \in 1..MaxComments, ans \in CommentAnswers : postComment(p, i, ans)
    \/ \E p \in Procs, i \in 1..MaxComments : commentDelay(p, i)

SpecCommentFair == InitShare /\ [][NextOneComment]_vars /\ FairComments

(***************************************************************************)
(* Two requests in flight, their steps interleaving while the clock stands *)
(* still                                                                   *)
(***************************************************************************)
\* the store once the access token of a login has expired: the refresh token
\* is all there is
InitRefresh ==
    /\ now = 0
    /\ \E b \in TokenBodies :
           /\ b.refresh_token # None
           /\ b.expires_in = 0
           /\ kv = KvSweep(setTokens([k \in KvKeys |-> NoEntry], 0,
                                     accessTokenResponseSchema(b)), 0)
    /\ rev = 1
    /\ client = NoGrant
    /\ authenticatedClient = None
    /\ req = [p \in Requests |-> Idle]
    /\ handed = [n \in Nonces |-> Never]
    /\ stored = [n \in Nonces |-> Never]

\* GET /linkedin/oauth/tokens by both
NextRefresh ==
    \/ \E p \in Requests : Tokens(p)
    \/ \E p \in Requests : getAccessToken(p)
    \/ \E p \in Requests, ans \in TokenAnswers : refreshAccessToken(p, ans)
    \/ \E p \in Requests, ans \in ProfileAnswers : getTokenUserProfile(p, ans)

SpecRefresh == InitRefresh /\ [][NextRefresh]_vars

\* callbacks and shares without media by both, from an empty store
NextCallbackAndPost ==
    \/ \E p \in Requests : Callback(p, FALSE, "c1", "n1")
    \/ \E p \in Requests, ans \in TokenAnswers : exchangeAccessToken(p, ans)
    \/ \E p \in Requests : Post(p, TRUE, Nothing, 0)
    \/ \E p \in Requests : getAccessToken(p)
    \/ \E p \in Requests, ans \in TokenAnswers : refreshAccessToken(p, ans)
    \/ \E p \in Requests, ans \in ProfileAnswers : getTokenUserProfile(p, ans)
    \/ \E p \in Requests, ans \in PublishAnswers : sharePost(p, ans)

SpecCallbackAndPost == InitApi /\ [][NextCallbackAndPost]_vars

(***************************************************************************)
(* The routes of the twitter router                                        *)
(***************************************************************************)
\* the store a callback of the twitter router left, or an empty one; the
\* client has no authenticatedClient yet
InitTwitter ==
    /\ now = 0
    /\ \/ kv = [k \in KvKeys |-> NoEntry]
       \/ \E ans \in TwitterTokenAnswers :
             /\ ans.kind = "ok"
             /\ kv = KvSweep(twitterSaveAccessToken([k \in KvKeys |-> NoEntry], 0,
                                                    exchangedTokens(ans)), 0)
    /\ rev = 1
    /\ client = NoGrant
    /\ authenticatedClient = None
    /\ req = [p \in Requests |-> Idle]
    /\ handed = [n \in Nonces |-> Never]
    /\ stored = [n \in Nonces |-> Never]

NextTwitter ==
    \/ Tick
    \/ \E p \in Procs, n \in Nonces, v \in Verifiers, urlOnly \in BOOLEAN :
           twitterLogin(p, n, v, urlOnly)
    \/ \E p \in Procs : setCodeVerifier(p)
    \/ \E p \in Procs : twitterTokens(p)
    \/ \E p \in Procs, ans \in TwitterTokenAnswers : twitterRefreshAccessToken(p, ans)

SpecTwitter == InitTwitter /\ [][NextTwitter]_vars

\* POST /twitter/thread, and the token check whose refresh gives the client
\* its authenticatedClient, while the clock stands still
NextThread ==
    \/ \E p \in Procs : twitterTokens(p)
    \/ \E p \in Procs, ans \in TwitterTokenAnswers : twitterRefreshAccessToken(p, ans)
    \/ \E p \in Procs, tweets \in Threads, media \in Attachments, ignore \in BOOLEAN :
           createThread(p, tweets, media, ignore)
    \/ \E p \in Procs : createTweet(p)
    \/ \E p \in Procs, ok \in BOOLEAN : fetchMedia(p, ok)
    \/ \E p \in Procs, ok \in BOOLEAN : uploadMedia(p, ok)
    \/ \E p \in Procs, ans \in TweetAnswers : tweet(p, ans)

SpecThread == InitTwitter /\ [][NextThread]_vars

(***************************************************************************)
(* Properties                                                              *)
(***************************************************************************)
Frames == {req[p] : p \in Procs}
\* a callback that got past the route's boundary checks
PastBoundary(f) ==
    f.route = "callback" /\ f.pc # "idle" /\ f.err \notin {"BadRequest", "UnprocessableEntity"}
\* the nonce s was written to the store less than 60 s ago
NonceLive(s) == s \in Nonces /\ stored[s] # Never /\ now < stored[s] + 60000
HasAccessToken == KvGet(kv, now, KeyAccessToken) # None
HasRefreshToken == KvGet(kv, now, KeyRefreshToken) # None

\* C1: a callback with code and state whose state matches no stored, unexpired
\* nonce is answered 401, sends no token-exchange request and writes no token
C1_MismatchRejected ==
    \A f \in Frames :
        (PastBoundary(f) /\ ~f.nonceOk) =>
            /\ f.exchanges = 0
            /\ ~f.wrote
            /\ (f.pc = "done" => f.status = 401)

\* C2: validateNonce / matchState of a value is true exactly while the store
\* holds that value as a nonce written less than 60 s ago: false for any other
\* value, for a value never issued and for a nonce whose 60 s have elapsed
C2_NonceMatch ==
    \A s \in StateParams :
        /\ validateNonce(kv, now, s) = NonceLive(s)
        /\ matchState(kv, now, s) = NonceLive(s)

\* C2 witness: one nonce matches while another, issued 60 s ago or earlier, and
\* a value never issued do not
C2_Witness ==
    \E s, u \in Nonces :
        /\ s # u
        /\ validateNonce(kv, now, s) /\ stored[s] < now
        /\ stored[u] # Never /\ now >= stored[u] + 60000 /\ ~validateNonce(kv, now, u)
        /\ ~validateNonce(kv, now, "zz")

\* C3: the state of every login url handed out by GET /linkedin/oauth/login
\* matches the stored nonce for the 60 s after the url was returned
C3_HandedOutNonceMatches ==
    \A n \in Nonces :
        (handed[n] # Never /\ now < handed[n] + 60000) => validateNonce(kv, now, n)

\* C4: a callback whose code the provider accepted with a token (still
\* unexpired) of the allowed account ends with 200 and with the exchanged access
\* token, and refresh token if issued, in the store
C4_CallbackPersists ==
    [][\A p \in Procs :
         LET f == req'[p] IN
         ( /\ req[p].pc # "done" /\ f.pc = "done" /\ f.route = "callback"
           /\ f.data # NoGrant
           /\ ProfileId(f.data.access_token) = allowedUserId
           /\ f.profileAns \in {None, "ok"}
           /\ now < f.t0 + f.data.expires_in )
         => /\ f.status = 200
            /\ KvGet(kv', now', KeyAccessToken) = f.data.access_token
            /\ (f.data.refresh_token # None
                    => KvGet(kv', now', KeyRefreshToken) = f.data.refresh_token)
      ]_vars

\* C5: what getAccessToken / accessToken returns is never absent, and after a
\* refresh it is the access token that refresh persisted
C5_ReturnsStoredToken ==
    \A f \in Frames :
        f.pc \in {"getTokenUserProfile", "me"} =>
            /\ f.tok # None
            /\ (f.refreshes = 0 \/ f.tok = f.persisted)

\* C6: when the refresh of an absent access token fails, for whatever reason,
\* the call fails with ExpiredTokenError, and when that error surfaces neither
\* token is in the store
C6_FailedRefreshExpires ==
    \A f \in Frames :
        (f.pc = "done" /\ f.route \in {"tokens", "callback"} /\ rev = 1) =>
            /\ (f.refreshAns \in {"http_error", "network_error", "bad_body"}
                    => f.err = "ExpiredTokenError")
            /\ (f.err = "ExpiredTokenError" => ~HasAccessToken /\ ~HasRefreshToken)

\* C7: one call of getAccessToken sends at most one refresh request
C7_AtMostOneRefresh ==
    \A f \in Frames : f.route \in {"tokens", "callback"} => f.refreshes <= 1

\* C8: whenever validateAccessToken fails with WrongTokenError neither token is
\* in the store
C8_WrongTokenClears ==
    \A f \in Frames :
        (f.pc = "done" /\ f.route \in {"tokens", "callback"} /\ rev = 1
            /\ f.err = "WrongTokenError")
        => ~HasAccessToken /\ ~HasRefreshToken

\* C9: a 401 to the profile call is followed by a refresh; the call then either
\* validates again or, the refresh failing, ends with ExpiredTokenError and no
\* token in the store
C9_RefreshOn401 ==
    \A f \in Frames :
        (f.pc = "done" /\ f.route \in {"tokens", "callback"} /\ rev = 1
            /\ f.profileAns = "unauthorized")
        => /\ f.err = "ExpiredTokenError"
           /\ ~HasAccessToken /\ ~HasRefreshToken


\* C10: within a share request no upload, publish or comment call is sent with
\* an access token whose time to live is over, unless the request attempted a
\* refresh
C10_NoExpiredTokenSent ==
    \A f \in Frames : (f.route = "post" /\ f.stale) => f.refreshed

\* C11: the finalize request of a video with n chunks carries n ETags, the
\* i-th being the etag the PUT of the i-th chunk was answered with, whatever
\* the order in which the PUTs were answered
C11_ETagsInPlanOrder ==
    \A f \in Frames :
        (f.media = "video" /\ f.sent["finalizeUpload"] > 0) =>
            /\ Len(f.ETags) = f.nchunks
            /\ \A i \in 1..f.nchunks : f.ETags[i] = f.chunks[i].etag

\* C11 witness: a finalize request was sent for two chunks with different
\* etags, the second chunk having been answered first
C11_Witness ==
    \E f \in Frames :
        /\ f.media = "video" /\ f.sent["finalizeUpload"] > 0
        /\ f.nchunks = 2 /\ f.arrived = <<2, 1>>
        /\ f.chunks[1].etag = "e1" /\ f.chunks[2].etag = "e2"

\* C12: a finalize endpoint that keeps answering non-2xx gets exactly 4 POSTs,
\* after which the upload fails with FailedToShareError, never earlier; a 2xx
\* to the j-th POST ends the finalize with j POSTs sent and the publish goes on
C12_FinalizeAttempts ==
    \A f \in Frames :
        f.media = "video" =>
            /\ f.sent["finalizeUpload"] <= 4
            /\ (f.finalizeAns = "http_error" /\ f.pc = "done")
                   => (f.sent["finalizeUpload"] = 4 /\ f.err = "FailedToShareError")
            /\ (f.finalizeAns = "http_error" /\ f.sent["finalizeUpload"] = 4
                    /\ f.pc # "finalizeVideoUpload")
                   => (f.pc = "done" /\ f.err = "FailedToShareError")
            /\ f.finalizeAns = "ok"
                   => /\ f.sent["finalizeUpload"] = Len(f.waits) + 1
                      /\ f.sent["post"] = 1
                      /\ f.pc \in {"sharePost", "done"}

\* C12 witness: four finalize POSTs were answered non-2xx and the request has
\* failed
C12_Witness ==
    \E f \in Frames :
        /\ f.media = "video" /\ f.pc = "done" /\ f.err = "FailedToShareError"
        /\ f.finalizeAns = "http_error" /\ f.sent["finalizeUpload"] = 4
        /\ Len(f.waits) = 3

\* C13: across the finalize retries of one video upload each wait is strictly
\* longer than the wait before the previous retry
C13_FinalizeBackoffIncreases ==
    \A f \in Frames :
        f.media = "video" =>
            \A a, b \in DOMAIN f.waits : a < b => f.waits[a] < f.waits[b]

C15_CommentBackoffIncreases ==
    \A f \in Frames, i \in 1..MaxComments :
        LET w == f.comments[i].waits IN
        \A a, b \in DOMAIN w : a < b => w[a] < w[b]

\* C16: once the publish POST has been answered with success the request is
\* answered 201, with no error, while comment POSTs are still unanswered and
\* whatever they are answered later
C16_PublishIgnoresComments ==
    \A f \in Frames :
        (f.route = "post" /\ f.publishAns = "ok") =>
            (f.pc = "done" /\ f.status = 201 /\ f.err = None)

\* C16 witness: the request is answered 201 while one of its comments has
\* failed and another is still waiting for its answer
C16_Witness ==
    \E f \in Frames :
        /\ f.route = "post" /\ f.publishAns = "ok" /\ f.status = 201
        /\ \E i, j \in 1..MaxComments :
               f.comments[i].pc = "failed" /\ f.comments[j].pc = "posting"

\* C17: after a successful publish with k comments every one of the k comments
\* has had a POST sent, a comment never answered 404 exactly one, and no POST
\* was sent for anything else
C17_EveryCommentPostedOnce ==
    \A f \in Frames :
        (f.route = "post" /\ f.publishAns = "ok") =>
            /\ Len(f.firsts) = f.ncomments
            /\ \A i \in 1..MaxComments :
                   LET c == f.comments[i] IN
                   /\ i <= f.ncomments => c.posts >= 1
                   /\ (i <= f.ncomments /\ c.waits = <<>> /\ c.last # "not_found")
                          => c.posts = 1
                   /\ i > f.ncomments => c.posts = 0

\* C17 witness: a publish with two comments, neither answered 404, both
\* resolved after one POST each
C17_Witness ==
    \E f \in Frames :
        /\ f.route = "post" /\ f.publishAns = "ok" /\ f.ncomments = 2
        /\ \A i \in 1..2 : /\ f.comments[i].pc \in {"ok", "failed"}
                           /\ f.comments[i].last # "not_found"
                           /\ f.comments[i].waits = <<>>
                           /\ f.comments[i].posts = 1

\* C18: the first POSTs of the comments are sent in the order of the input
C18_FirstPostsInInputOrder ==
    \A f \in Frames :
        f.route = "post" =>
            \A a, b \in DOMAIN f.firsts : a < b => f.firsts[a] < f.firsts[b]

\* C18 witness: two comments had their first POST sent, the first of them is
\* already at a later POST
C18_Witness ==
    \E f \in Frames :
        /\ f.route = "post" /\ f.firsts = <<1, 2>>
        /\ f.comments[1].posts > 1 /\ f.comments[2].posts = 1

C21_FailedChunkAborts ==
    \A f \in Frames :
        ( /\ f.route = "post" /\ f.media = "video"
          /\ \E i \in 1..f.nchunks : f.chunks[i].pc = "answered" /\ ~f.chunks[i].ok )
        => f.sent["finalizeUpload"] = 0 /\ f.sent["post"] = 0

\* C22: a share request sends no upload or publish call unless its body passed
\* the schema and validateAccessToken accepted the stored token as the allowed
\* account's; a body failing the schema is answered 422; a publish answered
\* with success is answered 201 with {postUrn, postUrl} as the body and the
\* Location and X-LinkedIn-Post-URN headers
C22_ShareNeedsValidation ==
    \A f \in Frames :
        f.route = "post" =>
            /\ (\E k \in CallKinds : f.sent[k] > 0)
                   => /\ f.bodyOk
                      /\ f.profileAns = "ok"
                      /\ f.validated # None /\ ProfileId(f.validated) = allowedUserId
            /\ ~f.bodyOk => (f.pc = "done" /\ f.status = 422)
            /\ f.publishAns = "ok"
                   => /\ f.pc = "done" /\ f.status = 201
                      /\ f.body = [postUrn |-> RestliId, postUrl |-> postUrlOf(RestliId)]
                      /\ DOMAIN f.headers = {"Location", "X-LinkedIn-Post-URN"}
                      /\ f.headers["Location"] = f.body.postUrl
                      /\ f.headers["X-LinkedIn-Post-URN"] = f.body.postUrn

\* C22 witness: a request with an image, its body and token accepted, was
\* answered 201 after the upload and the publish
C22_Witness ==
    \E f \in Frames :
        /\ f.route = "post" /\ f.media = "image" /\ f.bodyOk /\ f.validated = "atA"
        /\ f.sent["initializeUpload"] = 1 /\ f.sent["put"] = 1 /\ f.sent["post"] = 1
        /\ f.status = 201 /\ f.body.postUrn = RestliId

C24_FailedFetchNotFatal ==
    \A f \in Frames :
        ( /\ f.route = "post" /\ f.media = "article"
          /\ f.domAns \in {"http_error", "timeout", "network_error"} )
        => /\ f.sent["post"] = 1
           /\ f.post = addArticle(f.input)
           /\ f.err \in {None, "FailedToShareError"}

\* C25: the article enrichArticle returns for an article without title, its
\* page fetched, has as its title the content of the page's twitter:title tag;
\* that of og:title when the page has no twitter:title tag; the text of the
\* title element when it has neither
C25_TitleByPriority ==
    \A f \in Frames :
        ( /\ f.route = "post" /\ f.media = "article" /\ ~Truthy(f.input.title)
          /\ f.domAns = "ok" /\ f.post # Nothing )
        => /\ f.page["twitter:title"] = "content"
                 => f.post.title = ContentOf("twitter:title")
           /\ (f.page["twitter:title"] = "absent" /\ f.page["og:title"] = "content")
                 => f.post.title = ContentOf("og:title")
           /\ ( /\ f.page["twitter:title"] = "absent" /\ f.page["og:title"] = "absent"
                /\ f.page["title"] = "content" )
                 => f.post.title = ContentOf("title")

\* C26, for the thumbnail: when the article has no thumbnail and its page was
\* fetched, the value enrichArticle takes is that of the first candidate, in
\* ascending priority, whose value is not empty; an element found with empty
\* or missing content does not end the search
C26_FirstNonEmptyCandidate ==
    \A f \in Frames :
        ( /\ f.route = "post" /\ f.media = "article" /\ ~Truthy(f.input.thumbnail)
          /\ f.domAns = "ok" )
        => LET nonEmpty == SelectSeq(metatags("thumbnail"),
                                     LAMBDA m : Truthy(value(f.page, m.selector)))
           IN  nonEmpty # <<>> => f.scraped = value(f.page, Head(nonEmpty).selector)

\* C27: when enrichArticle has taken a thumbnail from the page, the asset PUT
\* is given the upload url the initializeUpload of that image returned, and a
\* publish POST is sent only after initializeUpload and PUT were answered with
\* success, its article's thumbnail being the urn initializeUpload returned
C27_ThumbnailUploadedFirst ==
    \A f \in Frames :
        (f.route = "post" /\ f.media = "article" /\ Truthy(f.scraped)) =>
            /\ f.putTo # None => f.putTo = f.upload.uploadUrl
            /\ f.sent["post"] > 0
                   => /\ f.initAns = "ok" /\ f.putAns = "ok"
                      /\ f.payload.content.article.thumbnail = f.upload.urn

\* C28: for an article that comes with title and thumbnail enrichArticle
\* fetches no page and uploads nothing, and the article it returns, the one
\* added to the post, is the article it was given
C28_CompleteArticleUntouched ==
    \A f \in Frames :
        ( /\ f.route = "post" /\ f.media = "article"
          /\ Truthy(f.input.title) /\ Truthy(f.input.thumbnail) )
        => /\ f.fetches = 0 /\ f.domAns = None
           /\ f.sent["initializeUpload"] = 0 /\ f.sent["put"] = 0
           /\ f.article # Nothing => (f.article = f.input /\ f.post = addArticle(f.input))

\* C28 witness: an article with title and thumbnail and without description
\* was published as it came, no page having been fetched
C28_Witness ==
    \E f \in Frames :
        /\ f.route = "post" /\ f.media = "article"
        /\ Truthy(f.input.title) /\ Truthy(f.input.thumbnail)
        /\ ~Truthy(f.input.description)
        /\ f.sent["post"] = 1 /\ f.publishAns = "ok" /\ f.fetches = 0
        /\ f.post = addArticle(f.input)

\* C29: the payload of every publish POST has author, visibility PUBLIC,
\* distribution.feedDistribution MAIN_FEED, commentary = the text,
\* lifecycleState PUBLISHED and isReshareDisabledByAuthor false; besides these
\* it has nothing when the post has no media, content.article with source and
\* title, and with description and thumbnail exactly when the article has
\* them, for an article, and content.media {id, title} for an image, a
\* document or a video
C29_PayloadShape ==
    \A f \in Frames :
        (f.route = "post" /\ f.sent["post"] > 0) =>
            LET pl == f.payload
                envelope == {"author", "visibility", "distribution", "commentary",
                             "lifecycleState", "isReshareDisabledByAuthor"}
            IN
            /\ envelope \subseteq DOMAIN pl
            /\ pl.author = authorizedUserURN
            /\ pl.visibility = "PUBLIC"
            /\ pl.distribution = [feedDistribution |-> "MAIN_FEED"]
            /\ pl.commentary = f.text
            /\ pl.lifecycleState = "PUBLISHED"
            /\ pl.isReshareDisabledByAuthor = FALSE
            /\ f.media = "none" => DOMAIN pl = envelope
            /\ f.media # "none" => DOMAIN pl = envelope \cup {"content"}
            /\ f.media = "article" =>
                  /\ DOMAIN pl.content = {"article"}
                  /\ LET a == pl.content.article IN
                     /\ a.source = f.post.source /\ a.title = f.post.title
                     /\ DOMAIN a = {"source", "title"}
                           \cup {k \in {"description", "thumbnail"} : Truthy(f.post[k])}
                     /\ \A k \in DOMAIN a : a[k] = f.post[k]
            /\ f.media \in {"image", "document", "video"} =>
                  pl.content = [media |-> [id |-> f.upload.urn, title |-> f.input.title]]

\* C29 witness: publish POSTs were sent for an article with thumbnail and
\* without description, its payload having the one and not the other
C29_Witness ==
    \E f \in Frames :
        /\ f.route = "post" /\ f.media = "article" /\ f.sent["post"] = 1
        /\ Truthy(f.post.thumbnail) /\ ~Truthy(f.post.description)
        /\ DOMAIN f.payload.content.article = {"source", "title", "thumbnail"}

\* C30: a nonce is used up by the check that matches it: once a callback's
\* state has been matched against it, the same state presented again, within
\* the 60 s, does not match
C30_NonceSingleUse ==
    [][\A p \in Procs, s \in Nonces :
         ( /\ req'[p] # req[p]
           /\ req'[p].route \in {"validateNonce", "matchState"}
           /\ req'[p].state = s /\ req'[p].nonceOk )
         => /\ ~validateNonce(kv', now', s)
            /\ ~matchState(kv', now', s)
      ]_vars


\* C31: nothing serialises the refresh path: a request that finds the access
\* token absent while the refresh request of another is in flight issues a
\* refresh request of its own, carrying the same stored refresh token
C31_RefreshNotSerialised ==
    [][\A p \in Requests, q \in Requests :
          ( /\ p # q
            /\ req[q].pc = "refreshAccessToken"
            /\ ~HasAccessToken /\ HasRefreshToken
            /\ getAccessToken(p) )
          => /\ req'[p].pc = "refreshAccessToken"
             /\ req'[p].rtok = KvGet(kv, now, KeyRefreshToken)]_vars

C31_Witness ==
    /\ req["p1"].pc = "refreshAccessToken"
    /\ req["p2"].pc = "refreshAccessToken"
    /\ req["p1"].rtok # None
    /\ req["p1"].rtok = req["p2"].rtok


\* C36: tokens persisted by a successful refresh stay in the store until they
\* expire or an identity check fails: while the clock stands still, the access
\* token a request's refresh persisted leaves the store only in the step of a
\* profile check that clears the tokens, never in the step of another
\* request's failed refresh
C36_RefreshedTokensStay ==
    [][( /\ HasAccessToken
         /\ \E q \in Requests : req[q].persisted = KvGet(kv, now, KeyAccessToken)
         /\ kv'[KeyAccessToken] = NoEntry )
       => \E p \in Requests :
             /\ req[p].pc = "getTokenUserProfile"
             /\ req'[p].cleared]_vars


\* C35: a token whose profile id differs from the allowed account id is never
\* used for an upload, publish or comment call: the token a share request
\* sends its calls with belongs to the allowed account, however the steps of a
\* callback interleave with the request's
C35_NoForeignTokenUsed ==
    \A p \in Requests :
        (req[p].route = "post" /\ \E k \in CallKinds : req[p].sent[k] > 0)
            => ProfileId(req[p].tok) = allowedUserId


\* C33: the calls of a video publish are ordered: no chunk PUT before the
\* initialize request was answered with the upload instructions, no finalize
\* request while a chunk PUT is unissued or outstanding, no publish POST before
\* a finalize request was answered 2xx
C33_VideoCallsInOrder ==
    \A f \in Frames :
        (f.route = "post" /\ f.media = "video") =>
            /\ f.sent["put"] > 0
                   => (f.sent["initializeUpload"] = 1 /\ f.initAns = "ok")
            /\ (f.sent["finalizeUpload"] > 0 \/ f.pc = "delay")
                   => /\ f.issued = f.nchunks
                      /\ f.sent["put"] = f.nchunks
                      /\ \A i \in 1..f.nchunks : f.chunks[i].pc = "answered"
            /\ f.sent["post"] > 0
                   => (f.sent["finalizeUpload"] > 0 /\ f.finalizeAns = "ok")

\* C33 witness: the publish POST of a video of two chunks was sent, the second
\* chunk answered before the first and the finalize request answered 2xx at
\* its second attempt
C33_Witness ==
    \E f \in Frames :
        /\ f.route = "post" /\ f.media = "video" /\ f.sent["post"] = 1
        /\ f.nchunks = 2 /\ f.arrived = <<2, 1>>
        /\ f.sent["finalizeUpload"] = 2


\* C34: the refresh on a 401 is tried once: a validateAccessToken whose refresh
\* after a 401 succeeded ends with an error when the profile call is answered
\* 401 again; it does not refresh and retry once more
C34_RefreshOn401Once ==
    [][\A p \in Procs :
          ( /\ req[p].route = "clientValidate"
            /\ req[p].pc = "me"
            /\ req[p].after = "validate" /\ req[p].refreshAns = "ok"
            /\ clientMe(p, "unauthorized") )
          => (req'[p].pc = "done" /\ req'[p].err # None)]_vars


\* C37: persisting a token response without refresh_token, by the controller's
\* setTokens or the client's saveAccessToken, writes the access token with
\* expires_in as its time to live and leaves every other entry of the store,
\* the refresh token and its expiry among them, as it was
C37_AccessTokenOnly ==
    \A b \in TokenBodies :
        b.refresh_token = None =>
            LET data == accessTokenResponseSchema(b)
                entry == [val |-> data.access_token, exp |-> now + data.expires_in]
            IN  /\ setTokens(kv, now, data) = [kv EXCEPT ![KeyAccessToken] = entry]
                /\ saveAccessToken(kv, now, data) = [kv EXCEPT ![KeyAccessToken] = entry]

\* C37 witness: a response without refresh_token was persisted later than the
\* refresh token the store still holds
C37_Witness ==
    \E f \in Frames :
        /\ f.wrote /\ f.data.refresh_token = None
        /\ f.t0 > 0
        /\ kv[KeyAccessToken] = [val |-> f.data.access_token,
                                 exp |-> f.t0 + f.data.expires_in]
        /\ HasRefreshToken
        /\ kv[KeyRefreshToken].exp < f.t0 + 150000


\* C32: the url getAuthorizeUrl returns has response_type=code, the configured
\* client_id, the /twitter/oauth/callback redirect_uri, the scope
\* 'tweet.read tweet.write users.read offline.access' and a non-empty state
\* and code_challenge; the call makes exactly two store writes, the nonce and
\* the code verifier under that nonce, and both are done when the url is
\* returned
C32_AuthorizeUrl ==
    /\ [](\A f \in Frames :
            f.route = "twitterLogin" =>
                /\ f.writes <= 2
                /\ f.pc = "done" =>
                      /\ f.writes = 2
                      /\ f.body = f.link
                      /\ f.link.response_type = "code"
                      /\ f.link.client_id = twitterClientId
                      /\ f.link.redirect_uri
                            = <<oauthCallbackBaseUrl, "/twitter/oauth/callback">>
                      /\ f.link.scope = <<"tweet.read", " ", "tweet.write", " ",
                                          "users.read", " ", "offline.access">>
                      /\ Truthy(f.link.state)
                      /\ Len(f.link.code_challenge) > 0)
    /\ [][\A p \in Procs :
            /\ (req[p].pc # "setCodeVerifier" /\ req'[p].pc = "setCodeVerifier") =>
                   /\ KvGet(kv', now', KeyTwitterNonces(req'[p].link.state))
                          = req'[p].link.state
                   /\ \A k \in KvKeys \ {KeyTwitterNonces(req'[p].link.state)} :
                          kv'[k] = kv[k]
            /\ (req[p].pc = "setCodeVerifier" /\ req'[p].pc = "done") =>
                   /\ KvGet(kv', now', KeyCodeVerifier(req'[p].link.state))
                          = req'[p].verifier
                   /\ \A k \in KvKeys \ {KeyCodeVerifier(req'[p].link.state)} :
                          kv'[k] = kv[k]]_vars

\* C32 witness: a login was answered with the url as a redirect, a tick after
\* an earlier login
C32_Witness ==
    \E f \in Frames :
        /\ f.route = "twitterLogin" /\ f.pc = "done" /\ f.status = 302
        /\ f.headers["Location"] = f.link
        /\ now > 0
        /\ kv[KeyTwitterNonces(f.state)] = [val |-> f.state, exp |-> now + 60000]
        /\ kv[KeyCodeVerifier(f.state)] = [val |-> f.verifier, exp |-> now + 60000]


\* C38: after a successful Twitter token refresh the refresh token in the
\* store is the new refresh token of the provider's answer, not the one the
\* refresh was made with
C38_RefreshTokenRotated ==
    [][\A p \in Procs, ans \in TwitterTokenAnswers :
          (ans.kind = "ok" /\ ans.refreshToken # None /\ twitterRefreshAccessToken(p, ans))
              => KvGet(kv', now', KeyTwitterRefreshToken) = ans.refreshToken]_vars


\* C39: createThread posts the tweets one after another in input order, the
\* next only once the one before was created; each tweet after the first
\* replies to the tweet created just before it; the media go with the first
\* tweet only; when a tweet fails no later tweet is posted and the request
\* ends with the error
C39_ThreadInOrder ==
    \A f \in Frames :
        (f.route = "thread" /\ Len(f.tweets) >= 1) =>
            /\ Len(f.tweeted) <= Len(f.tweets)
            /\ Len(f.tweeted) = Len(f.ids) + (IF f.pc = "tweet" THEN 1 ELSE 0)
                 \/ (f.pc = "done" /\ f.err # None /\ Len(f.tweeted) = Len(f.ids) + 1)
            /\ \A i \in DOMAIN f.tweeted :
                  /\ f.tweeted[i].text = f.tweets[i]
                  /\ f.tweeted[i].in_reply_to_tweet_id
                        = (IF i = 1 THEN None ELSE f.ids[i - 1])
                  /\ f.tweeted[i].media_ids
                        = (IF i = 1 /\ f.attachments # <<>> THEN <<MediaId>> ELSE <<>>)
            /\ (f.pc = "done" /\ Len(f.ids) < Len(f.tweets))
                  => (f.err # None /\ f.status # 200)
            /\ (f.pc = "done" /\ f.err = None)
                  => (f.status = 200 /\ f.body = [threadId |-> f.ids[1]])

\* C39 witness: the second tweet of a thread of three with media failed
C39_Witness ==
    \E f \in Frames :
        /\ f.route = "thread" /\ Len(f.tweets) = 3 /\ f.attachments # <<>>
        /\ f.pc = "done" /\ f.err = "Error"
        /\ Len(f.ids) = 1 /\ Len(f.tweeted) = 2

====
